---- MODULE Spec2Model ----
(***************************************************************************)
(* A model of the ingestion pipeline of powermarketdata:                   *)
(*   - the writers: DuckDBConnection.save_dataframe (db/ and data_sources/)*)
(*     and JMAWeatherDBImporter.import_dataframe          (SpecWriter)     *)
(*   - the fetchers: TSODataDownloader.fetch_data and                      *)
(*     UnifiedTSODownloader.download_csv                  (SpecFetch)      *)
(*   - the orchestration: TSODataImporter.import_from_downloader,          *)
(*     UnifiedTSODownloader.download_files, TSODataImporter.import_data    *)
(*                                                        (SpecImport)     *)
(*   - parsing and mapping: TSODataParser.parse_data and its mappers,      *)
(*     UnifiedTSODownloader._process_zip_file / _process_demand_data, the  *)
(*     slot conversion of TSODataImporter.import_data     (SpecParse)      *)
(* Each specification drives its own variables and leaves the others at    *)
(* their initial values.                                                   *)
(***************************************************************************)
EXTENDS Integers, Sequences, FiniteSets, TLC

VARIABLES
    \* ---- writers
    wTable,     \* the target table: master_key -> number of stored rows with it
    wExists,    \* the target table exists in the catalog
    wViews,     \* names registered as views on the underlying connection
    wConn,      \* data_sources.db_connection.DuckDBConnection._connection is not None
    wCall,      \* the last writer call: who, with what, on what, and what it reported
    \* ---- fetchers
    fImpl,      \* the fetcher running: "fetch_data", "download_csv", or "idle"
    fTso,       \* tso_id
    fYear,      \* target_date.year
    fNow,       \* datetime.now().year
    fTodo,      \* the candidates not yet requested, in order
    fUrl,       \* download_csv: the candidate `url` names for the final GET
    fLog,       \* the requests issued so far, with the server's answers
    fOut,       \* "running", or how the call ended: "content", "empty", "raised"
    \* ---- orchestration
    iArea,      \* the area tables: tso -> master_key -> rows stored
    iTsoData,   \* tso_data: (master_key, tso_id) -> rows stored
    iTx,        \* the importer's connection: the open transaction, if any
    iRun,       \* runs completed
    iPc,        \* "idle", or "download": a run is under way
    iTsoIds,    \* the run's tso_ids
    iStart,     \* the run's start_date
    iEnd,       \* the run's end_date
    iT,         \* index in iTsoIds of the TSO being processed
    iMonths,    \* months of the current TSO still to download
    iData,      \* download_files' results so far for the current TSO
    iFetched,   \* (tso, month) pairs of the run whose download was attempted
    iSkipped,   \* (tso, month) pairs downloaded whose turn in import_data never came
    iLast,      \* the batch of the last step: the tables before it; failed: an SQL
                \* statement of it raised; refused: a primary key refused a row;
                \* deleted: it deleted rows; done: it has ended
    \* ---- parsing and mapping
    pOp,        \* the operation applied last, or "idle"
    pIn,        \* what it was applied to
    pOut,       \* what it produced
    \* ---- the ingest command
    cCmd,       \* the command running: "db_importer.main", "main.tso-data", or "idle"
    cPc,        \* "idle"; "between": between two iterations; "fetch", "parse":
                \* inside download_csv, process_csv of an iteration; "import":
                \* importing a TSO's frames; "exit": the process has ended
    cIts,       \* the (tso, month) iterations of the run, in order
    cDone,      \* the outcome of each iteration that came to its end, in order
    cProbes,    \* download_csv: the alternative URLs still to probe
    cResults,   \* download_files: frames appended to `results` for the TSO
    cTrace,     \* the GETs issued and the sleeps made, in order
    cCancel,    \* where the run was when Ctrl-C arrived, if it did
    cExit,      \* the exit code; None while the process runs
    \* ---- the JMA fetch
    jImpl,      \* "fetch_month_data", "fetch_jma_csv_data", or "idle"
    jMax,       \* max_retries
    jLog,       \* the POSTs made: the answer, and the seconds slept after it
    jOut,       \* "idle", "running", or what was returned: "csv", "None"
    \* ---- the connection wrapper (db/duckdb_connection.py)
    dReadOnly,  \* self.read_only
    dConnection,\* self._connection: 0 for None, or the number of the connection
    dHandles,   \* the connections made by duckdb.connect that are open
    dMade,      \* the connections made so far
    dLast,      \* the last call: its name, self._connection and the open
                \* connections before it, whether it raised, whether a query
                \* was run and whether the connection it ran on was open
    \* ---- the JEPX bid downloader (data_sources/jepx/jepx_bid.py)
    xTable,     \* the rows of jepx_bid_data, in the order they were inserted
    xPc,        \* "none": no downloader yet; "ready": constructed, no call
                \* running; "running": in download_and_save; "raised"
    xDate,      \* current_date, as a day number
    xEnd,       \* end_date
    xDir,       \* the index in DIR_NAMES of the next file of current_date
    xRuns,      \* the download_and_save calls made so far
    xSaved      \* the last save_to_database of the call: each record's id and bid, whether
                \* the INSERT raised, and the table's size, whether the id was
                \* in it and that row's bid before the INSERT

wvars == <<wTable, wExists, wViews, wConn, wCall>>
fvars == <<fImpl, fTso, fYear, fNow, fTodo, fUrl, fLog, fOut>>

ivars == <<iArea, iTsoData, iTx, iRun, iPc, iTsoIds, iStart, iEnd, iT, iMonths, iData,
           iFetched, iSkipped, iLast>>

pvars == <<pOp, pIn, pOut>>
dvars == <<dReadOnly, dConnection, dHandles, dMade, dLast>>
xvars == <<xTable, xPc, xDate, xEnd, xDir, xRuns, xSaved>>
jvars == <<jImpl, jMax, jLog, jOut>>
cvars == <<cCmd, cPc, cIts, cDone, cProbes, cResults, cTrace, cCancel, cExit>>

vars == <<wvars, fvars, ivars, pvars, cvars, jvars, dvars, xvars>>

----------------------------------------------------------------------------
(* Bounds *)

MaxKeys == 2        \* distinct non-null master keys
MaxRows == 2        \* rows of one DataFrame
MaxTable == 3       \* rows of the target table

(* Program constants *)

UNKNOWN == -1       \* "inserted row count unknown"

----------------------------------------------------------------------------
(* Values *)

NullKey == 0
Keys == 1..MaxKeys
KeyDom == Keys \cup {NullKey}

EmptyTable == [k \in KeyDom |-> 0]

RowCount(t) == t[NullKey] + (LET S[i \in 0..MaxKeys] ==
                                   IF i = 0 THEN 0 ELSE S[i-1] + t[i]
                             IN S[MaxKeys])

\* A DataFrame and a table are relations: the writers' SQL is set-based and
\* reads no row order, so each is held as the number of rows per master_key
\* value (NullKey: NaN/None in the master_key column).
DataFrames == {df \in [KeyDom -> 0..MaxRows] : RowCount(df) <= MaxRows}

EmptyFrame == EmptyTable

Occurrences(df, k) == df[k]

\* INSERT INTO t SELECT * FROM df : every row of df is appended.
InsertAll(t, df) == [k \in KeyDom |-> t[k] + Occurrences(df, k)]

\* INSERT INTO t SELECT * FROM df tmp WHERE NOT EXISTS (SELECT 1 FROM t
\* existing WHERE existing.master_key = tmp.master_key): the subquery reads t
\* as it was before the statement, so a key repeated inside df is inserted as
\* often as it occurs.
\* A NULL master_key equals nothing, so a NULL-keyed row always passes.
InsertNotExists(t, df) ==
    [k \in KeyDom |-> IF k = NullKey \/ t[k] = 0
                      THEN t[k] + Occurrences(df, k) ELSE t[k]]

\* INSERT ... ON CONFLICT (primary_key) DO NOTHING: a key already stored, or
\* met earlier in the same statement, is skipped.
InsertOnConflictDoNothing(t, df) ==
    [k \in KeyDom |-> IF t[k] = 0 /\ Occurrences(df, k) > 0 THEN 1 ELSE t[k]]

DropNull(df) == [df EXCEPT ![NullKey] = 0]

HasNull(df) == df[NullKey] > 0

----------------------------------------------------------------------------
(* The writers.  Each returns what the call leaves behind:                 *)
(*   raised - the call ended with an exception                             *)
(*   ret    - the value returned (meaningful when ~raised)                 *)
(*   table, exists, views - the store after the call                       *)

Returned(r, t, e, v) == [raised |-> FALSE, ret |-> r, table |-> t, exists |-> e, views |-> v]
Raised(t, e, v) == [raised |-> TRUE, ret |-> 0, table |-> t, exists |-> e, views |-> v]

TempView == "temp_view"     \* temp_view_<table>_<ms>, duckdb_connection.py:177
TempDf == "temp_df"         \* db_connection.py:121
JmaView == "temp_jma"       \* temp_jma_weather_import_<pid>, jma/db_importer.py:200

\* db/duckdb_connection.py, save_dataframe from line 163 on: the duplicate
\* check, the view, INSERT ... RETURNING with its fallback, the finally
\* block and the final return.
\*   returningOk: the engine accepts INSERT ... RETURNING
\*   insertOk:    the INSERT itself is accepted (schema matches)
save_dataframe_tail(df, t, exists, views, check, returningOk, insertOk) ==
    LET d == IF check /\ HasNull(df) THEN DropNull(df) ELSE df
        registered == views \cup {TempView}
        unregistered == registered \ {TempView}
    IN  IF check /\ HasNull(df) /\ d = EmptyFrame
        THEN Returned(0, t, exists, views)
        ELSE IF ~exists \/ ~insertOk
        THEN Raised(t, exists, unregistered)
        ELSE LET t2 == IF check THEN InsertNotExists(t, d) ELSE InsertAll(t, d)
                 inserted_rows ==
                     IF returningOk THEN RowCount(t2) - RowCount(t)
                     ELSE IF check THEN UNKNOWN ELSE RowCount(d)
             IN Returned(IF inserted_rows # UNKNOWN THEN inserted_rows ELSE 0,
                         t2, exists, unregistered)

\* A writer that appends the whole batch without looking at master_key.
save_dataframe_appendAll(df, t, exists, views, if_exists, check) ==
    IF if_exists # "append"
    THEN Raised(t, exists, views)
    ELSE Returned(RowCount(df), InsertAll(t, df), exists, views)

\* db/duckdb_connection.py, save_dataframe as it runs: the `return 0` of
\* line 161 stands at the function's own indentation, after (not inside)
\* `if df.empty:`, so every call with if_exists = 'append' ends there.
save_dataframe(df, t, exists, views, if_exists, check) ==
    IF if_exists # "append"
    THEN Raised(t, exists, views)
    ELSE Returned(0, t, exists, views)

\* data_sources/db_connection.py, save_dataframe.
\*   conn:     self._connection is not None (else the "mock" branch)
\*   insertOk: the INSERT into an existing table is accepted
ds_save_dataframe(df, t, exists, views, conn, insertOk) ==
    IF ~conn
    THEN Returned(RowCount(df), t, exists, views)
    ELSE LET registered == views \cup {TempDf}
         IN IF exists /\ insertOk
            THEN Returned(RowCount(df), InsertAll(t, df), exists, registered)
            ELSE IF ~exists
            \* CREATE TABLE IF NOT EXISTS ... AS SELECT * FROM temp_df LIMIT 0
            THEN Returned(RowCount(df), InsertAll(t, df), TRUE, registered)
            ELSE Returned(0, t, exists, registered)

\* The attributes of db.duckdb_connection.DuckDBConnection.
WrapperAttrs ==
    {"__enter__", "__exit__", "execute_query", "close", "is_connected",
     "_ensure_connection", "save_dataframe", "db_path", "read_only", "_connection"}

\* data_sources/jma/db_importer.py, import_dataframe.  self.connection is a
\* db.duckdb_connection.DuckDBConnection; a call of a method it does not have
\* raises AttributeError, which the handler of line 242 catches.
\*   insertOk:  the INSERT ... ON CONFLICT statement is accepted
\*   changesOk: SELECT changes() is accepted
import_dataframe(df, t, exists, views, insertOk, changesOk) ==
    IF df = EmptyFrame
    THEN Returned(0, t, exists, views)
    ELSE IF "register" \notin WrapperAttrs
    THEN Returned(0, t, exists, views)
    ELSE LET registered == views \cup {JmaView}
             dropped == IF "drop_view" \in WrapperAttrs
                        THEN registered \ {JmaView} ELSE registered
         IN IF ~exists \/ ~insertOk \/ HasNull(df)
            THEN Returned(0, t, exists, dropped)
            ELSE LET t2 == InsertOnConflictDoNothing(t, df)
                     rows_inserted == IF changesOk THEN RowCount(t2) - RowCount(t)
                                      ELSE UNKNOWN
                 IN IF "drop_view" \in WrapperAttrs
                    THEN Returned(rows_inserted, t2, exists, dropped)
                    ELSE Returned(0, t2, exists, registered)

----------------------------------------------------------------------------
(* The orchestration: TSODataImporter.import_from_downloader and            *)
(* import_data (tso/db_importer.py), UnifiedTSODownloader.download_files    *)
(* (tso/unified_downloader.py), DuckDBConnection.execute_query              *)
(* (db/duckdb_connection.py).                                               *)

MaxRuns == 2        \* ingestion runs on one database

SampleSize == 5     \* master_keys[:5], db_importer.py:579

RunTsos == {"hokkaido", "tohoku"}
TsoLists == {<<"hokkaido">>, <<"hokkaido", "tohoku">>}

\* The months a run may cover.  One row stands for the rows of a month: the
\* row of its first day and first slot; its master_key is the month's index.
Periods == <<[y |-> 2023, m |-> 12], [y |-> 2024, m |-> 1]>>
IKeys == 1..Len(Periods)
PeriodSet == {Periods[i] : i \in IKeys}

\* calendar.monthrange(y, m)[1]
monthrange(y, m) ==
    IF m = 2 THEN (IF y % 4 = 0 /\ (y % 100 # 0 \/ y % 400 = 0) THEN 29 ELSE 28)
    ELSE IF m \in {4, 6, 9, 11} THEN 30 ELSE 31

first_day(p) == [y |-> p.y, m |-> p.m, d |-> 1]
last_day(p) == [y |-> p.y, m |-> p.m, d |-> monthrange(p.y, p.m)]
KeyDate(k) == first_day(Periods[k])

months_from_sameYear(y, m, end_month) ==
    IF y = end_month.y /\ m <= end_month.m
    THEN [i \in 1..(end_month.m - m + 1) |-> [y |-> y, m |-> m + i - 1]]
    ELSE <<>>

\* download_files, lines 636-647: the months from start_date's to end_date's.
RECURSIVE months_from(_, _, _)
months_from(y, m, end_month) ==
    IF y < end_month.y \/ (y = end_month.y /\ m <= end_month.m)
    THEN <<[y |-> y, m |-> m]>>
            \o (IF m + 1 > 12 THEN months_from(y + 1, 1, end_month)
                ELSE months_from(y, m + 1, end_month))
    ELSE <<>>

months_to_process(start_date, end_date) == months_from(start_date.y, start_date.m, end_date)

\* download_files, lines 666-667: the rows whose date lies in [start_date, end_date].
DateLE(a, b) == a.y < b.y \/ (a.y = b.y /\ (a.m < b.m \/ (a.m = b.m /\ a.d <= b.d)))
InRange(k, start_date, end_date) == DateLE(start_date, KeyDate(k)) /\ DateLE(KeyDate(k), end_date)

\* Text, as sequences of character codes.
Digit(n) == 48 + n
TwoDigits(n) == <<Digit((n \div 10) % 10), Digit(n % 10)>>
FourDigits(n) == TwoDigits(n \div 100) \o TwoDigits(n % 100)
strftime_Ymd(dt) == FourDigits(dt.y) \o TwoDigits(dt.m) \o TwoDigits(dt.d)       \* '%Y%m%d'
strftime_iso(dt) == FourDigits(dt.y) \o <<45>> \o TwoDigits(dt.m) \o <<45>> \o TwoDigits(dt.d)
                                                                                 \* '%Y-%m-%d'
\* a <= b as SQL compares VARCHARs
RECURSIVE StrLE(_, _)
StrLE(a, b) ==
    IF a = <<>> THEN TRUE
    ELSE IF b = <<>> THEN FALSE
    ELSE IF Head(a) # Head(b) THEN Head(a) < Head(b)
    ELSE StrLE(Tail(a), Tail(b))

\* import_from_downloader, lines 593-597: the rows the DELETE's WHERE selects,
\* CAST(date AS VARCHAR) >= '<%Y%m%d>' AND CAST(date AS VARCHAR) <= '<%Y%m%d>'.
DeleteMatches(k, start_date, end_date) ==
    /\ StrLE(strftime_Ymd(start_date), strftime_iso(KeyDate(k)))
    /\ StrLE(strftime_iso(KeyDate(k)), strftime_Ymd(end_date))

\* The tables: rows per master_key in each area table, rows per
\* (master_key, tso_id) in tso_data.
EmptyArea == [k \in IKeys |-> 0]
EmptyAreas == [t \in RunTsos |-> EmptyArea]
EmptyTsoData == [kt \in IKeys \X RunTsos |-> 0]

RECURSIVE SumOver(_, _)
SumOver(f, S) == IF S = {} THEN 0
                 ELSE LET x == CHOOSE x \in S : TRUE IN f[x] + SumOver(f, S \ {x})

TsoDataRows(tsodata, k) == SumOver(tsodata, {k} \X RunTsos)

\* The master_key columns of the area tables and of tso_data are primary
\* keys: an INSERT of a key the table holds is refused.
PrimaryKeyViolation_unconstrained(held) == FALSE

PrimaryKeyViolation(held) == held > 0

\* The connection: the tables, whether a transaction is open, and the tables
\* as they were when it was opened.
Db(area, tsodata, tx) == [area |-> area, tsodata |-> tsodata, tx |-> tx]
NoTx == [open |-> FALSE, area |-> EmptyAreas, tsodata |-> EmptyTsoData]

ExecOk(db) == [db |-> db, raised |-> FALSE]
ExecRaised(db) == [db |-> db, raised |-> TRUE]

\* self._connection.execute(query, params), execute_query lines 90-93.
\* st.ok = FALSE: the engine refuses the statement for a reason of its own
\* (a value it cannot convert, a NOT NULL column, an unknown column).
engine_execute(db, st) ==
    CASE st.op = "BEGIN" ->
            IF db.tx.open THEN ExecRaised(db)
            ELSE ExecOk([db EXCEPT !.tx = [open |-> TRUE, area |-> db.area,
                                           tsodata |-> db.tsodata]])
      [] st.op = "COMMIT" ->
            IF ~db.tx.open THEN ExecRaised(db) ELSE ExecOk([db EXCEPT !.tx = NoTx])
      [] st.op = "ROLLBACK" ->
            IF ~db.tx.open THEN ExecRaised(db)
            ELSE ExecOk(Db(db.tx.area, db.tx.tsodata, NoTx))
      [] st.op = "SELECT" -> ExecOk(db)
      [] st.op = "DELETE_AREA" ->
            ExecOk([db EXCEPT !.area[st.tso] =
                [k \in IKeys |-> IF DeleteMatches(k, st.lo, st.hi) THEN 0 ELSE @[k]]])
      [] st.op = "DELETE_TSO" ->
            IF ~st.ok THEN ExecRaised(db)
            ELSE ExecOk([db EXCEPT !.tsodata =
                [kt \in IKeys \X RunTsos |->
                    IF kt[2] = st.tso /\ DeleteMatches(kt[1], st.lo, st.hi) THEN 0 ELSE @[kt]]])
      [] st.op = "INSERT_AREA" ->
            IF ~st.ok \/ PrimaryKeyViolation(db.area[st.tso][st.key]) THEN ExecRaised(db)
            ELSE ExecOk([db EXCEPT !.area[st.tso][st.key] = @ + 1])
      [] st.op = "INSERT_TSO" ->
            IF ~st.ok \/ PrimaryKeyViolation(TsoDataRows(db.tsodata, st.key)) THEN ExecRaised(db)
            ELSE ExecOk([db EXCEPT !.tsodata[<<st.key, st.tso>>] = @ + 1])

\* self._connection.commit(), execute_query line 96: commits the open
\* transaction; nothing to do in autocommit.
commit(db) == IF db.tx.open THEN [db EXCEPT !.tx = NoTx] ELSE db

\* DuckDBConnection.execute_query(query, params), commit = True
execute_query(db, st) ==
    LET r == engine_execute(db, st)
    IN IF r.raised THEN r ELSE ExecOk(commit(r.db))

\* The keys of a frame in row order.
KeySeq(S) == SelectSeq([i \in IKeys |-> i], LAMBDA k : k \in S)

\* What a frame's slot column holds (import_data, lines 242-287):
\*   "hhmm"    the first slot is text with ':' : every value goes through
\*             time_to_slot, which raises nothing;
\*   "junk"    no ':' in the first slot and no value is a number: astype(int)
\*             raises, the handler filters every row out and continues;
\*   "decimal" no ':' in the first slot and the values are numbers that are
\*             not integer literals ('1.5'): astype(int) raises, the handler's
\*             to_numeric filter keeps them and its own astype(int) (line 287)
\*             raises again, outside any try of the loop body.
SlotKinds == {"hhmm", "junk", "decimal"}

\* The frames download_files can return for one month of a run.
Frames(start_date, end_date) ==
    [keys : (SUBSET {k \in IKeys : InRange(k, start_date, end_date)}) \ {{}},
     slot : SlotKinds]

\* import_data, lines 404-420 and 456-471: the row loop of one table, one
\* INSERT per row of the frame, each in its own try.  A frame holds a
\* master_key once (drop_duplicates, unified_downloader.py lines 558 and 596)
\* and an INSERT reads and changes only the rows of its own key, so the loop
\* is given key by key.
insert_rows(db, op, tso, keys, bad) ==
    LET row(k) == execute_query(db, [op |-> op, tso |-> tso, key |-> k, ok |-> k \notin bad])
        rows == [k \in keys |-> row(k)]
    IN [db |-> Db([db.area EXCEPT ![tso] =
                        [k \in IKeys |-> IF k \in keys THEN rows[k].db.area[tso][k] ELSE @[k]]],
                  [kt \in IKeys \X RunTsos |->
                        IF kt[1] \in keys THEN rows[kt[1]].db.tsodata[kt] ELSE db.tsodata[kt]],
                  db.tx),
        errors |-> {k \in keys : rows[k].raised},
        refused |-> {k \in keys : rows[k].raised /\ k \notin bad}]

\* import_data, lines 205-480: the loop body for one frame.  raised: the
\* exception of line 287 leaves import_data (lines 483-486); failed: an SQL
\* statement raised.
import_frame(db, tso, df, bad) ==
    IF df.slot = "decimal" THEN [db |-> db, raised |-> TRUE, failed |-> FALSE, refused |-> FALSE]
    ELSE IF df.slot = "junk" THEN [db |-> db, raised |-> FALSE, failed |-> FALSE, refused |-> FALSE]
    ELSE LET a == insert_rows(db, "INSERT_AREA", tso, df.keys, bad)
             t == insert_rows(a.db, "INSERT_TSO", tso, df.keys, bad)
         IN [db |-> t.db, raised |-> FALSE,
             failed |-> a.errors # {} \/ t.errors # {},
             refused |-> a.refused # {} \/ t.refused # {}]

RECURSIVE MasterKeys(_)
MasterKeys(data_list) ==
    IF data_list = <<>> THEN <<>>
    ELSE KeySeq(Head(data_list).keys) \o MasterKeys(Tail(data_list))

\* import_from_downloader, lines 553-604: BEGIN TRANSACTION, the check of
\* the first keys against the area table and, when one is found, the two
\* DELETEs (an exception of theirs is logged, line 603).  deleteOk: the
\* engine accepts the DELETE on tso_data.
begin_batch(db, tso, data_list, start_date, end_date, deleteOk) ==
    LET master_keys == MasterKeys(data_list)
        begun == execute_query(db, [op |-> "BEGIN"])
        sample_keys == SubSeq(master_keys, 1,
                              IF Len(master_keys) < SampleSize THEN Len(master_keys)
                              ELSE SampleSize)
        existing_count == SumOver(begun.db.area[tso],
                                  {sample_keys[i] : i \in 1..Len(sample_keys)})
        delArea == execute_query(begun.db, [op |-> "DELETE_AREA", tso |-> tso,
                                            lo |-> start_date, hi |-> end_date])
        delTso == execute_query(delArea.db, [op |-> "DELETE_TSO", tso |-> tso,
                                             lo |-> start_date, hi |-> end_date,
                                             ok |-> deleteOk])
    IN IF existing_count > 0
       THEN [db |-> delTso.db, failed |-> delTso.raised]
       ELSE [db |-> begun.db, failed |-> FALSE]

\* import_from_downloader, lines 610-624: COMMIT when import_data returned;
\* on any exception ROLLBACK, whose own exception is logged.
end_batch(db, raised) ==
    LET done == IF raised THEN ExecRaised(db) ELSE execute_query(db, [op |-> "COMMIT"])
    IN IF done.raised THEN execute_query(done.db, [op |-> "ROLLBACK"]).db ELSE done.db

\* No batch has been persisted.
NoBatch == [tso |-> "none", area |-> EmptyAreas, tsodata |-> EmptyTsoData, frames |-> 0,
            failed |-> FALSE, refused |-> FALSE, deleted |-> FALSE, done |-> FALSE]

IIdle ==
    /\ iArea = EmptyAreas /\ iTsoData = EmptyTsoData /\ iTx = NoTx
    /\ iRun = 0 /\ iPc = "idle"
    /\ iTsoIds = <<>> /\ iStart = first_day(Periods[1]) /\ iEnd = first_day(Periods[1])
    /\ iT = 0 /\ iMonths = <<>> /\ iData = <<>>
    /\ iFetched = {} /\ iSkipped = {} /\ iLast = NoBatch

----------------------------------------------------------------------------
(* Parsing and mapping: TSODataParser (tso/parser.py),                      *)
(* UnifiedTSODownloader._process_zip_file / _process_demand_data            *)
(* (tso/unified_downloader.py) and the slot conversion of                   *)
(* TSODataImporter.import_data (tso/db_importer.py).                        *)
(* Cell values are texts (sequences of character codes) or NaN.             *)

MaxHour == 24               \* hours written in the TIME column: 0..MaxHour

NaN == <<-1>>               \* a missing cell
None == -1                  \* Python's None where a number is expected

Colon == 58
Space == 32
Slash == 47
Underscore == 95
Ji == 26178                 \* U+6642, the hour sign

isna(v) == v = NaN

IsDigit(c) == c >= 48 /\ c <= 57

\* str.lower() of ASCII letters
lower(s) == [i \in 1..Len(s) |-> IF s[i] >= 65 /\ s[i] <= 90 THEN s[i] + 32 ELSE s[i]]

\* str.strip() of blanks
RECURSIVE strip(_)
strip(s) ==
    IF s = <<>> THEN s
    ELSE IF Head(s) = Space THEN strip(Tail(s))
    ELSE IF s[Len(s)] = Space THEN strip(SubSeq(s, 1, Len(s) - 1))
    ELSE s

\* str.split(sep): the pieces between the separators
RECURSIVE split(_, _)
split(s, sep) ==
    IF \A i \in 1..Len(s) : s[i] # sep THEN <<s>>
    ELSE LET i == CHOOSE k \in 1..Len(s) : s[k] = sep /\ \A j \in 1..(k - 1) : s[j] # sep
         IN <<SubSeq(s, 1, i - 1)>> \o split(SubSeq(s, i + 1, Len(s)), sep)

\* str.replace(old, ''): the text without the character
RECURSIVE replace_none(_, _)
replace_none(s, old) ==
    IF s = <<>> THEN s
    ELSE (IF Head(s) = old THEN <<>> ELSE <<Head(s)>>) \o replace_none(Tail(s), old)

\* int(text): surrounding blanks are ignored, then decimal digits only;
\* anything else raises ValueError.
int_raises(s) == strip(s) = <<>> \/ \E i \in 1..Len(strip(s)) : ~IsDigit(strip(s)[i])

RECURSIVE digits_value(_)
digits_value(s) ==
    IF s = <<>> THEN 0 ELSE digits_value(SubSeq(s, 1, Len(s) - 1)) * 10 + (s[Len(s)] - 48)

int(s) == digits_value(strip(s))

\* str(n) of a natural number
RECURSIVE str(_)
str(n) == IF n < 10 THEN <<Digit(n)>> ELSE str(n \div 10) \o <<Digit(n % 10)>>

\* The TIME texts of the files: "HH:MM", and what else a cell may hold.
HHMM(h, m) == TwoDigits(h) \o <<Colon>> \o TwoDigits(m)
OddTimes ==
    { <<57, Colon, 51, 48>>,                    \* "9:30"
      <<49, 48, Space, 51, 48>>,                \* "10 30"
      <<49, 48, Ji, 51, 48>>,                   \* "10時30"
      <<49, 48, Colon, 51, 48, Colon, 48, 48>>, \* "10:30:00"
      <<49, 50>>,                               \* "12"
      <<97, 98, 99>>,                           \* "abc"
      <<84, 73, 77, 69>>,                       \* "TIME"
      <<>>,                                     \* ""
      NaN }
TimeCells == {HHMM(h, m) : h \in 0..MaxHour, m \in {0, 15, 30}} \cup OddTimes

\* parser.py, _process_demand_data.time_to_slot (lines 362-371): 0 for a
\* missing cell and for whatever raises.
time_to_slot(time_str) ==
    IF isna(time_str) THEN 0
    ELSE LET parts == split(time_str, Colon)
         IN IF Len(parts) # 2 \/ int_raises(parts[1]) \/ int_raises(parts[2]) THEN 0
            ELSE LET hour == int(parts[1])
                     minute == int(parts[2])
                     slot == hour * 2 + (IF minute = 0 THEN 1 ELSE 2)
                 IN IF slot = 0 /\ hour = 24 THEN 48 ELSE slot

\* parser.py, _set_column_names_for_chubu.time_to_slot (lines 513-525)
chubu_time_to_slot(time_str) ==
    IF isna(time_str) THEN 0
    ELSE LET parts == split(time_str, Colon)
         IN IF Len(parts) # 2 \/ int_raises(parts[1]) \/ int_raises(parts[2]) THEN 0
            ELSE LET hour == int(parts[1])
                     minute == int(parts[2])
                     slot == hour * 2 + (IF minute = 0 THEN 1 ELSE 2)
                 IN IF slot = 0 /\ hour = 24 THEN 48 ELSE slot

\* db_importer.py, import_data.time_to_slot (lines 248-260): the minutes are
\* compared as text with '30'; None for a missing cell and for whatever raises.
importer_time_to_slot(time_str) ==
    IF isna(time_str) THEN None
    ELSE IF \E i \in 1..Len(time_str) : time_str[i] = Colon
         THEN LET parts == split(time_str, Colon)
              IN IF Len(parts) # 2 \/ int_raises(parts[1]) THEN None
                 ELSE int(parts[1]) * 2 + (IF parts[2] = <<51, 48>> THEN 1 ELSE 0) + 1
         ELSE IF int_raises(time_str) THEN None ELSE int(time_str)

\* unified_downloader.py, _process_demand_data.normalize_time_format (lines
\* 499-522): re.search(r'(\d{1,2})[:\s時](\d{1,2})') finds the leftmost
\* separator with a digit on both sides; the groups take up to two digits,
\* the left one ending at the separator.  No match: the text as it is.
MatchAt(s) ==
    {i \in 2..(Len(s) - 1) :
        s[i] \in {Colon, Space, Ji} /\ IsDigit(s[i - 1]) /\ IsDigit(s[i + 1])}
Min(S) == CHOOSE x \in S : \A y \in S : x <= y
normalize_time_format(time_str) ==
    IF isna(time_str) THEN NaN
    ELSE IF lower(time_str) = <<116, 105, 109, 101>> THEN NaN       \* 'time'
    ELSE IF MatchAt(time_str) = {} THEN strip(time_str)
    ELSE LET i == Min(MatchAt(time_str))
             hour == IF i > 2 /\ IsDigit(time_str[i - 2])
                     THEN SubSeq(time_str, i - 2, i - 1) ELSE SubSeq(time_str, i - 1, i - 1)
             minute == IF i + 2 <= Len(time_str) /\ IsDigit(time_str[i + 2])
                       THEN SubSeq(time_str, i + 1, i + 2) ELSE SubSeq(time_str, i + 1, i + 1)
         IN TwoDigits(int(hour)) \o <<Colon>> \o TwoDigits(int(minute))

\* ---- mapping a raw frame to canonical records

MaxRawRows == 2             \* rows of a raw frame: 1..MaxRawRows

NaT == [y |-> 0, m |-> 0, d |-> 0]

Hyphen == 45

\* A date text of year, month and day numbers joined by sep, as strptime reads
\* '%Y<sep>%m<sep>%d' under errors='coerce': the day, or NaT.
strptime(cell, sep) ==
    IF isna(cell) THEN NaT
    ELSE LET parts == split(cell, sep)
         IN IF Len(parts) # 3 \/ \E i \in 1..3 : int_raises(parts[i]) THEN NaT
            ELSE IF Len(parts[1]) # 4 \/ Len(parts[2]) > 2 \/ Len(parts[3]) > 2 THEN NaT
            ELSE IF int(parts[2]) \notin 1..12 THEN NaT
            ELSE IF int(parts[3]) \notin 1..monthrange(int(parts[1]), int(parts[2])) THEN NaT
            ELSE [y |-> int(parts[1]), m |-> int(parts[2]), d |-> int(parts[3])]

\* pd.to_datetime(text, format='%Y/%m/%d', errors='coerce')
to_datetime(cell) == strptime(cell, Slash)

\* pd.to_datetime(text, errors='coerce') with no format, for a column of one
\* shape: the shape is found from the text, slashes or hyphens.
to_datetime_infer(cell) ==
    IF strptime(cell, Slash) # NaT THEN strptime(cell, Slash) ELSE strptime(cell, Hyphen)

\* pd.to_numeric(text, errors='coerce'): the number, or NaN (written None)
to_numeric(cell) == IF isna(cell) \/ int_raises(cell) THEN None ELSE int(cell)

\* Series.fillna(0)
fillna0(v) == IF v = None THEN 0 ELSE v

Comma == 44

GoodDate == <<50, 48, 50, 52, Slash, 48, 49, Slash, 48, 49>>        \* "2024/01/01"
OtherDate == <<50, 48, 50, 52, Slash, 48, 49, Slash, 48, 50>>       \* "2024/01/02"
IsoDate == <<50, 48, 50, 52, Hyphen, 48, 49, Hyphen, 48, 49>>       \* "2024-01-01"
GoodRow == [date |-> GoodDate, time |-> HHMM(0, 0), metric |-> <<49, 50>>]  \* metric "12"
FrameTimes == {HHMM(0, 0), HHMM(23, 30), HHMM(MaxHour, 0), <<97, 98, 99>>, NaN}

\* The raw rows: the cells under the DATE, TIME and one metric heading.  The
\* good row with its date or time varied ("2024/02/30" is no date), the good
\* row with its metric varied ("1,200", "abc", missing), and the heading row
\* of a file read as data ("DATE", "TIME").
RawRows ==
    {[GoodRow EXCEPT !.date = d, !.time = t] :
        d \in {GoodDate, <<50, 48, 50, 52, Slash, 48, 50, Slash, 51, 48>>, NaN},
        t \in FrameTimes}
    \cup {[GoodRow EXCEPT !.metric = v] :
            v \in {<<49, Comma, 50, 48, 48>>, <<97, 98, 99>>, NaN}}
    \cup {[date |-> <<68, 65, 84, 69>>, time |-> <<84, 73, 77, 69>>, metric |-> <<97, 98, 99>>]}

\* A raw frame: the standard columns its headings map to, and its rows.
StdColumns == {"date", "slot", "metric"}
RawFrames ==
    {[cols |-> c, rows |-> r] :
        c \in SUBSET StdColumns, r \in UNION {[1..n -> RawRows] : n \in 1..MaxRawRows}}

\* What a mapper hands back: the records of a frame, or an exception.
Emitted(records) == [raised |-> FALSE, records |-> records]
EmptyDataFrame == Emitted(<<>>)

\* DataFrame.drop_duplicates(subset=['master_key'], keep='first')
RECURSIVE drop_duplicates(_)
drop_duplicates(recs) ==
    IF recs = <<>> THEN <<>>
    ELSE LET init == drop_duplicates(SubSeq(recs, 1, Len(recs) - 1))
             last == recs[Len(recs)]
         IN IF \E i \in 1..Len(init) : init[i].master_key = last.master_key
            THEN init ELSE Append(init, last)

\* The indices of `rows` that satisfy `keep`, in order.
RECURSIVE Kept(_, _)
Kept(n, keep) ==
    IF n = 0 THEN <<>> ELSE Kept(n - 1, keep) \o (IF n \in keep THEN <<n>> ELSE <<>>)

\* parser.py, _process_demand_data lines 379-410 for the row of index i (the
\* frame's index survives dropna and drop_duplicates): master_key is
\* f"{date_str}_{slot_num}"; a mapped metric is to_numeric(...).fillna(0) with
\* the commas removed, an unmapped one is 0.
parser_record(i, df) ==
    LET row == df.rows[i]
        cols == df.cols
        slot_num == time_to_slot(row.time)
        date_str == strftime_Ymd(to_datetime(row.date))
    IN [index |-> i,
        master_key |-> date_str \o <<Underscore>> \o str(slot_num),
        date |-> date_str,
        slot |-> slot_num,
        metric |-> IF "metric" \in cols
                   THEN fillna0(to_numeric(replace_none(row.metric, Comma))) ELSE 0]

\* parser.py, _process_demand_data (lines 278-424)
process_demand_data(df) ==
    IF "date" \notin df.cols \/ "slot" \notin df.cols THEN EmptyDataFrame     \* 343-345
    ELSE LET dated == {i \in 1..Len(df.rows) : to_datetime(df.rows[i].date) # NaT}
         IN IF dated = {} THEN EmptyDataFrame                                  \* 353-355
            ELSE Emitted(drop_duplicates(
                    [k \in 1..Cardinality(dated) |->
                        parser_record(Kept(Len(df.rows), dated)[k], df)]))

\* parser.py, _set_column_names_for_chubu lines 527-556 for the row of index i
chubu_record(i, df) ==
    LET row == df.rows[i]
        cols == df.cols
        slot_num == chubu_time_to_slot(row.time)
        date_str == strftime_Ymd(to_datetime(row.date))
    IN [index |-> i,
        master_key |-> date_str \o <<Underscore>> \o str(slot_num),
        date |-> date_str,
        slot |-> slot_num,
        metric |-> IF "metric" \in cols
                   THEN fillna0(to_numeric(replace_none(row.metric, Comma))) ELSE 0]

\* parser.py, _set_column_names_for_chubu (lines 430-573)
set_column_names_for_chubu(df) ==
    IF "date" \notin df.cols \/ "slot" \notin df.cols THEN EmptyDataFrame     \* 491-493
    ELSE LET dated == {i \in 1..Len(df.rows) : to_datetime(df.rows[i].date) # NaT}
         IN IF dated = {} THEN EmptyDataFrame                                  \* 505-507
            ELSE Emitted(drop_duplicates(
                    [k \in 1..Cardinality(dated) |->
                        chubu_record(Kept(Len(df.rows), dated)[k], df)]))

\* unified_downloader.py, _process_demand_data.create_master_key (lines
\* 526-549): the date's '%Y%m%d', '_', and the slot text without its colons.
create_master_key(date, slot) ==
    IF date = NaT \/ isna(slot) THEN NaN
    ELSE strftime_Ymd(date) \o <<Underscore>> \o replace_none(slot, Colon)

\* unified_downloader.py, _process_demand_data lines 486-585 for the row of
\* index i: the slot stays a text; a metric is to_numeric(..., errors='coerce').
unified_record(i, df, tso_id) ==
    LET row == df.rows[i]
        date == to_datetime_infer(row.date)
        slot == normalize_time_format(row.time)
    IN [index |-> i,
        master_key |-> create_master_key(date, slot),
        date |-> strftime_iso(date),
        slot |-> slot,
        metric |-> to_numeric(row.metric),
        tso_id |-> tso_id]

\* unified_downloader.py, _process_demand_data (lines 458-602): the columns
\* are taken by position, so a frame with a column less is too narrow.
unified_process_demand_data(df, tso_id) ==
    IF df.cols # StdColumns THEN EmptyDataFrame                                \* 466-470
    ELSE LET data == {i \in 1..Len(df.rows) :
                        ~(i = 1 /\ ~isna(df.rows[1].date)
                                /\ lower(strip(df.rows[1].date)) = <<100, 97, 116, 101>>)}
             valid == {i \in data : /\ to_datetime_infer(df.rows[i].date) # NaT
                                    /\ ~isna(normalize_time_format(df.rows[i].time))}
         IN Emitted(drop_duplicates(
                [k \in 1..Cardinality(valid) |->
                    unified_record(Kept(Len(df.rows), valid)[k], df, tso_id)]))

\* ---- archives

MaxMembers == 2             \* members of an archive: 0..MaxMembers

\* A member: what its name is like, and what its bytes are like.  Names: "ym"
\* holds the year and month together (eria_jukyu_202404.csv), "y_m" holds them
\* apart (eria_2024_04.csv), "month" holds the month with its sign
\* (jukyu_04月.csv), "other" is another .csv name, "notcsv" is not a .csv name.
\* Bytes: "table" is a file that reads and maps to records, "empty" is no
\* bytes, "broken" is a file on which read_csv(header=1) raises ParserError.
Members == [name : {"ym", "y_m", "month", "other", "notcsv"},
            content : {"table", "empty", "broken"}]

\* The archives; bytes that are no archive list nothing.
Archives ==
    {[valid |-> TRUE, members |-> ms] :
        ms \in UNION {[1..n -> Members] : n \in 0..MaxMembers}}
    \cup {[valid |-> FALSE, members |-> <<>>]}

\* [f for f in namelist() if f.lower().endswith('.csv')], as indices
csv_files(zip) == {i \in 1..Len(zip.members) : zip.members[i].name # "notcsv"}

\* unified_downloader.py lines 316-320: the three patterns, in the order of
\* the list; re.match of pattern p on a name.
Patterns == <<"ym", "y_m", "month">>
pattern_match(p, member) == member.name = Patterns[p]

\* unified_downloader.py lines 313-346: the member to read.
\* chubu: matched_files collects the matches of each pattern in turn and its
\* first entry is taken; other sources try the first pattern only.
target_file(zip, tso_id) ==
    LET matched(p) == {i \in csv_files(zip) : pattern_match(p, zip.members[i])}
        tried == IF tso_id = "chubu" THEN 1..3 ELSE {1}
        hit == {p \in tried : matched(p) # {}}
    IN IF hit # {} THEN Min(matched(Min(hit))) ELSE Min(csv_files(zip))

\* What an extraction hands back: `used` are the members whose content is
\* in the result, `reads` the read_csv calls made.
Extracted(used, reads) == [raised |-> FALSE, used |-> used, reads |-> reads, records |-> <<>>]
ValueError == [raised |-> TRUE, used |-> <<>>, reads |-> <<>>, records |-> <<>>]

\* unified_downloader.py, _process_zip_file (lines 285-371): BadZipFile and
\* "no CSV" both leave as ValueError; the member is decoded with
\* errors='replace', which cannot raise.
unified_process_zip_file(zip, tso_id) ==
    IF ~zip.valid THEN ValueError                                              \* 369-371
    ELSE IF csv_files(zip) = {} THEN ValueError                                \* 310-311
    ELSE Extracted(<<target_file(zip, tso_id)>>, <<>>)

\* One read_csv call: on which member (0: the content itself), with which header.
Read(member, header) == [member |-> member, header |-> header]

\* parser.py, _process_zip_file (lines 196-272): every .csv member is read
\* with header=1 and the frames of all of them are concatenated; a member
\* that raises is logged and left out (lines 254-255); BadZipFile and "no CSV"
\* give pd.DataFrame().
parser_process_zip_file(zip) ==
    IF ~zip.valid THEN Extracted(<<>>, <<>>)                                   \* 267-269
    ELSE IF csv_files(zip) = {} THEN Extracted(<<>>, <<>>)                     \* 214-216
    ELSE LET n == Len(zip.members)
             parsed == Kept(n, {i \in csv_files(zip) : zip.members[i].content # "empty"})
         IN Extracted(Kept(n, {i \in csv_files(zip) : zip.members[i].content = "table"}),
                      [k \in 1..Len(parsed) |-> Read(parsed[k], "1")])

\* ---- bytes to text to frame

\* Bytes, by what can be done with them: the encodings under which a strict
\* decode succeeds, and what chardet.detect answers (an encoding or none,
\* with a confidence above 0.7 or not).  cp932 extends shift-jis.
ByteKinds ==
    {b \in [decodable : SUBSET {"utf-8", "shift-jis", "cp932", "euc-jp"},
            guess : {"shift-jis", "euc-jp", "none"}, confident : BOOLEAN] :
        "shift-jis" \in b.decodable => "cp932" \in b.decodable}

\* parser.py, _detect_encoding (lines 159-194)
detect_encoding(b) ==
    IF "utf-8" \in b.decodable THEN "utf-8"
    ELSE IF "shift-jis" \in b.decodable THEN "shift-jis"
    ELSE IF "cp932" \in b.decodable THEN "cp932"
    ELSE IF b.guess # "none" /\ b.confident THEN b.guess
    ELSE "utf-8"

\* parser.py, parse_data lines 79-96: content.decode(encoding), then the
\* fallbacks other than `encoding`, all strict; "none" when every one raised.
decode(b) ==
    LET encoding == detect_encoding(b)
    IN IF encoding \in b.decodable THEN encoding
       ELSE IF "shift-jis" # encoding /\ "shift-jis" \in b.decodable THEN "shift-jis"
       ELSE IF "cp932" # encoding /\ "cp932" \in b.decodable THEN "cp932"
       ELSE "none"

\* The frames a text may read as: a good row under mapped headings, headings
\* that do not map to 'slot', and no row at all.
ReadFrames == {[cols |-> StdColumns, rows |-> <<GoodRow>>],
               [cols |-> {"date", "metric"}, rows |-> <<GoodRow>>],
               [cols |-> StdColumns, rows |-> <<>>]}

\* A content: its bytes, whether the text is blank, and what pd.read_csv does
\* with the text: the first call reads it, or raises ParserError, or raises
\* something else (EmptyDataError); a second call, with header=None, reads
\* it or raises.
Contents ==
    [bytes : ByteKinds, blank : BOOLEAN, read1 : {"ok", "ParserError", "EmptyDataError"},
     read2 : {"ok", "ParserError"}, df : ReadFrames]

\* What parse_data hands back for a CSV content: always a frame.
Parsed(text, reads, records) ==
    [raised |-> FALSE, text |-> text, reads |-> reads, records |-> records]

\* parser.py, parse_data lines 75-157 (the content is bytes and no archive).
\* With header=None the headings are numbers, and none maps to a column.
parse_csv(c, tso_id) ==
    LET text == decode(c.bytes)
        map(df) == IF df.rows = <<>> THEN <<>>                                 \* 129-131
                   ELSE IF tso_id = "chubu" THEN set_column_names_for_chubu(df).records
                   ELSE process_demand_data(df).records
    IN IF text = "none" THEN Parsed("none", <<>>, <<>>)                        \* 94-96
       ELSE IF c.blank THEN Parsed(text, <<>>, <<>>)                           \* 103-105
       ELSE IF c.read1 = "ok" THEN Parsed(text, <<Read(0, "1")>>, map(c.df))
       ELSE IF c.read1 # "ParserError" THEN Parsed(text, <<Read(0, "1")>>, <<>>)   \* 155-157
       ELSE IF c.read2 = "ok"
            THEN Parsed(text, <<Read(0, "1"), Read(0, "None")>>,
                        map([cols |-> {}, rows |-> c.df.rows]))
       ELSE Parsed(text, <<Read(0, "1"), Read(0, "None")>>, <<>>)              \* 126-127, 155-157

\* Nothing has been parsed.
\* ---- the months of a date range

\* The month after month m of year y.
next_month(y, m) == IF m = 12 THEN [y |-> y + 1, m |-> 1] ELSE [y |-> y, m |-> m + 1]

\* jma_historical.py, month_range (lines 317-358), from the month (y, m) on:
\* (year, month, first day, last day) for each month.
RECURSIVE month_range_from(_, _, _, _)
month_range_from(y, m, start_date, end_date) ==
    IF ~DateLE([y |-> y, m |-> m, d |-> 1], end_date) THEN <<>>                  \* 334-335
    ELSE <<[y |-> y, m |-> m,
            first |-> IF y = start_date.y /\ m = start_date.m THEN start_date.d ELSE 1,
            last |-> IF y = end_date.y /\ m = end_date.m THEN end_date.d
                     ELSE monthrange(y, m)]>>
         \o (IF y = end_date.y /\ m = end_date.m THEN <<>>                       \* 343-346
             ELSE IF /\ ~DateLE([y |-> next_month(y, m).y, m |-> next_month(y, m).m, d |-> 1],
                                end_date)
                     /\ ~(next_month(y, m).y = end_date.y /\ next_month(y, m).m = end_date.m)
                  THEN <<>>                                                      \* 356-358
             ELSE month_range_from(next_month(y, m).y, next_month(y, m).m,
                                   start_date, end_date))

month_range(start_date, end_date) ==
    month_range_from(start_date.y, start_date.m, start_date, end_date)

\* tso_demand.py, download_range (lines 198-217): the months requested.
\* After the first month current_date is the first day of a month.
RECURSIVE download_range(_, _)
download_range(current_date, end_date) ==
    IF DateLE(current_date, end_date)
    THEN <<[y |-> current_date.y, m |-> current_date.m]>>
            \o download_range([y |-> next_month(current_date.y, current_date.m).y,
                               m |-> next_month(current_date.y, current_date.m).m,
                               d |-> 1], end_date)
    ELSE <<>>

\* ---- the two header rows of a JMA file

\* s.startswith(prefix); `sub in s`
startswith(s, prefix) == Len(s) >= Len(prefix) /\ SubSeq(s, 1, Len(prefix)) = prefix
contains(s, sub) == \E i \in 1..(Len(s) - Len(sub) + 1) : SubSeq(s, i, i + Len(sub) - 1) = sub
endswith(s, suffix) ==
    Len(s) >= Len(suffix) /\ SubSeq(s, Len(s) - Len(suffix) + 1, Len(s)) = suffix

\* s.replace(old, new)
RECURSIVE replace(_, _, _)
replace(s, old, new) ==
    IF Len(s) < Len(old) THEN s
    ELSE IF SubSeq(s, 1, Len(old)) = old
         THEN new \o replace(SubSeq(s, Len(old) + 1, Len(s)), old, new)
         ELSE <<Head(s)>> \o replace(Tail(s), old, new)

\* parse_jma_csv, lines 212-229: the replacements made in the first-row
\* label, in order: "(℃)" by "_degC", "(時間)" by "_h", "(m/s)" by "_mps",
\* "(mm)", "(hPa)", "(MJ/㎡)" and its two garbled forms, "(cm)", "(%)", "()",
\* "/" by "_per_", " " by "_", "(", ")" and "：" by nothing, "・" by "_".
Replacements ==
    <<
      <<<<40, 8451, 41>>, <<95, 100, 101, 103, 67>>>>,
      <<<<40, 26178, 38291, 41>>, <<95, 104>>>>,
      <<<<40, 109, 47, 115, 41>>, <<95, 109, 112, 115>>>>,
      <<<<40, 109, 109, 41>>, <<95, 109, 109>>>>,
      <<<<40, 104, 80, 97, 41>>, <<95, 104, 80, 97>>>>,
      <<<<40, 77, 74, 47, 13217, 41>>, <<95, 77, 74, 95, 112, 101, 114, 95, 109, 50>>>>,
      <<<<40, 77, 74, 47, 65533, 117, 41>>, <<95, 77, 74, 95, 112, 101, 114, 95, 109, 50>>>>,
      <<<<40, 77, 74, 47, 117, 41>>, <<95, 77, 74, 95, 112, 101, 114, 95, 109, 50>>>>,
      <<<<40, 99, 109, 41>>, <<95, 99, 109>>>>,
      <<<<40, 37, 41>>, <<95, 112, 101, 114, 99, 101, 110, 116>>>>,
      <<<<40, 41>>, <<95, 112, 101, 114, 99, 101, 110, 116>>>>,
      <<<<47>>, <<95, 112, 101, 114, 95>>>>,
      <<<<32>>, <<95>>>>,
      <<<<40>>, <<>>>>,
      <<<<41>>, <<>>>>,
      <<<<65306>>, <<>>>>,
      <<<<12539>>, <<95>>>>
    >>

RECURSIVE replace_chain(_, _)
replace_chain(s, k) ==
    IF k = 0 THEN s
    ELSE replace(replace_chain(s, k - 1), Replacements[k][1], Replacements[k][2])

std_col_level0(col_level0_str) == lower(replace_chain(col_level0_str, Len(Replacements)))

Unnamed == <<85, 110, 110, 97, 109, 101, 100, 58>>                 \* "Unnamed:"
Kion == <<27671, 28201, 40, 8451, 41>>                                       \* "気温(℃)"
Fusoku == <<39080, 36895, 40, 109, 47, 115, 41>>                             \* "風速(m/s)"
Fuko == <<39080, 21521>>                                                 \* "風向"
HinshitsuJoho == <<21697, 36074, 24773, 22577>>                          \* "品質情報"
NenGappiJi == <<24180, 26376, 26085, 26178>>                             \* "年月日時"
MainSuffix == <<95, 109, 97, 105, 110>>                                 \* "_main"

\* lines 206-210: str(...).strip(), and a cell pandas named "Unnamed: ..." is blank
level_str(cell) == IF startswith(strip(cell), Unnamed) THEN <<>> ELSE strip(cell)

\* lines 231-250: the merged name of one column, before it is made unique.
\* The ancillary keywords are 品質情報, 均質番号, 現象なし情報 and 風向.
merged_name(col, n) ==
    LET col_level0_str == level_str(col[1])
        col_level1_str == level_str(col[2])
        std0 == std_col_level0(col_level0_str)
        std1 == lower(col_level1_str)
        is_primary_data_candidate ==
            \/ col_level1_str = <<>>
            \/ contains(std1, <<117, 110, 110, 97, 109, 101, 100>>)
            \/ \A kw \in {HinshitsuJoho, <<22343, 36074, 30058, 21495>>, <<29694, 35937, 12394, 12375, 24773, 22577>>, Fuko} :
                    ~contains(std1, kw)
    IN IF /\ (contains(col_level0_str, <<39080, 36895>>) \/ contains(std0, <<119, 105, 110, 100, 95, 115, 112, 101, 101, 100>>))
          /\ (contains(col_level1_str, Fuko) \/ contains(std1, <<119, 105, 110, 100, 95, 100, 105, 114, 101, 99, 116, 105, 111, 110>>))
       THEN <<119, 105, 110, 100, 95, 100, 105, 114, 101, 99, 116, 105, 111, 110, 95, 105, 110, 116, 101, 114, 109, 101, 100, 105, 97, 116, 101>>
       ELSE IF is_primary_data_candidate /\ std0 # <<>> THEN std0 \o MainSuffix
       ELSE IF std0 # <<>> /\ std1 # <<>>
            THEN std0 \o <<Underscore>> \o replace(std1, <<Space>>, <<Underscore>>)
       ELSE IF std0 # <<>> THEN std0
       ELSE IF std1 # <<>> THEN replace(std1, <<Space>>, <<Underscore>>)
       ELSE <<99, 111, 108, 95, 112, 108, 97, 99, 101, 104, 111, 108, 100, 101, 114, 95>> \o str(n)

\* lines 252-257: a name already given gets "_1", "_2", ... appended.
unique_name(name, new_cols) ==
    LET taken(x) == \E i \in 1..Len(new_cols) : new_cols[i] = x
    IN IF ~taken(name) THEN name
       ELSE name \o <<Underscore>>
                \o str(Min({c \in 1..(Len(new_cols) + 1) : ~taken(name \o <<Underscore>> \o str(c))}))

\* lines 203-258: the merged names of the first k columns
RECURSIVE new_cols(_, _)
new_cols(columns, k) ==
    IF k = 0 THEN <<>>
    ELSE Append(new_cols(columns, k - 1),
                unique_name(merged_name(columns[k], k - 1), new_cols(columns, k - 1)))

\* lines 344-360: column_mapping, for the names the model's labels can give
\* (the other keys are for 日照時間, 日射量, 天気, 降雪, 積雪, 降水量).
column_mapping(name) ==
    IF name \in {<<27671, 28201, 95, 100, 101, 103, 99, 95, 109, 97, 105, 110>>,
                 <<97, 118, 103, 95, 27671, 28201, 95, 100, 101, 103, 99>>, <<27671, 28201, 95, 100, 101, 103, 99>>}
    THEN "temperature"
    ELSE IF name \in {<<39080, 36895, 95, 109, 112, 115, 95, 109, 97, 105, 110>>,
                      <<97, 118, 103, 95, 39080, 36895, 95, 109, 112, 115>>, <<39080, 36895, 95, 109, 112, 115>>}
    THEN "wind_speed"
    ELSE IF name = <<119, 105, 110, 100, 95, 100, 105, 114, 101, 99, 116, 105, 111, 110, 95, 105, 110, 116, 101, 114, 109, 101, 100, 105, 97, 116, 101>> THEN "wind_direction"
    ELSE "unmapped"

\* parse_jma_csv for interval "hourly", lines 203-262 and 344-360: per column,
\* the merged name and the column it becomes.  The first column is renamed
\* 'datetime_raw' (line 262).
parse_jma_csv(columns) ==
    [i \in 1..Len(columns) |->
        [merged |-> new_cols(columns, Len(columns))[i],
         column |-> IF i = 1 THEN "datetime_raw"
                    ELSE column_mapping(new_cols(columns, Len(columns))[i])]]

Nothing == [kind |-> "none"]
PIdle == pOp = "idle" /\ pIn = Nothing /\ pOut = Nothing

\* No wrapper has been constructed.
NoDbCall == [op |-> "none", pre |-> 0, open |-> {}, raised |-> FALSE, ran |-> FALSE,
             live |-> FALSE, ret |-> FALSE, committed |-> FALSE]
DIdle == dReadOnly = FALSE /\ dConnection = 0 /\ dHandles = {} /\ dMade = 0 /\ dLast = NoDbCall

\* No JEPX downloader has been constructed; the table has no rows.
XIdle == xTable = <<>> /\ xPc = "none" /\ xDate = 0 /\ xEnd = 0 /\ xDir = 0 /\ xRuns = 0
         /\ xSaved = <<>>

\* No JMA fetch has been started.
JIdle == jImpl = "idle" /\ jMax = 0 /\ jLog = <<>> /\ jOut = "idle"

\* No command has been started.
NoCancel == [at |-> "none", it |-> 0, started |-> 0]
CIdle ==
    /\ cCmd = "idle" /\ cPc = "idle" /\ cIts = <<>> /\ cDone = <<>> /\ cProbes = <<>>
    /\ cResults = 0 /\ cTrace = <<>> /\ cCancel = NoCancel /\ cExit = None

----------------------------------------------------------------------------
(* The fetchers: TSODataDownloader.fetch_data (tso/downloader.py) and       *)
(* UnifiedTSODownloader.download_csv (tso/unified_downloader.py).           *)

Years == 2023..2026         \* target years and current years tried
NowYears == 2025..2026
TemplateYear == 2025        \* the year written into chubu's URL, unified_downloader.py:135

\* What a server may answer to one GET: a status class and whether the body
\* has bytes.  "200"; "2xx": a success status other than 200; "err": a 4xx or
\* 5xx status; "exc": requests.get raised a RequestException (no response).
Responses ==
    {[status |-> st, body |-> b] : st \in {"200", "2xx"}, b \in {"full", "empty"}}
        \cup {[status |-> st, body |-> "empty"] : st \in {"err", "exc"}}

Is2xx(resp) == resp.status \in {"200", "2xx"}

Tsos == {"chubu", "tohoku", "hokuriku"}

\* fetch_data, lines 81-90: the years tried for chubu.
test_years(Y, cur) ==
    LET first == IF Y > cur THEN <<cur>> ELSE <<Y>>
        add(seq, y) == IF y <= cur /\ (\A i \in 1..Len(seq) : seq[i] # y)
                       THEN Append(seq, y) ELSE seq
        offs == add(add(first, Y - 1), Y + 1)
    IN IF \A i \in 1..Len(offs) : offs[i] # cur THEN Append(offs, cur) ELSE offs

version_numbers_swapped == <<1, 3, 2, 4, 5>>

\* fetch_data, line 119
version_numbers == <<1, 2, 3, 4, 5>>

\* The end of tohoku's URL for 2024-04 (tso_urls.py line 35), as text:
\* "jukyu_202404_02.csv".
TohokuUrl == <<106, 117, 107, 121, 117, Underscore, 50, 48, 50, 52, 48, 52, Underscore,
               48, 50, 46, 99, 115, 118>>

\* fetch_data, line 122: re.sub(r'_\d{2}\.csv$', f'_{version}.csv', original_url)
alt_url(original_url, version) ==
    LET n == Len(original_url)
    IN IF /\ n >= 7
          /\ original_url[n - 6] = Underscore
          /\ IsDigit(original_url[n - 5]) /\ IsDigit(original_url[n - 4])
          /\ SubSeq(original_url, n - 3, n) = <<46, 99, 115, 118>>
       THEN SubSeq(original_url, 1, n - 7) \o <<Underscore>> \o version \o <<46, 99, 115, 118>>
       ELSE original_url

\* download_csv, line 222
alt_years(cur) == <<cur, cur - 1>>

\* The candidates of a call, in the order the code walks them: position in
\* that order, and the year or version number put into the URL (0: the URL
\* as the template gave it).
Numbered(tags) == [i \in 1..Len(tags) |-> [pos |-> i, tag |-> tags[i]]]

fd_candidates(tso, Y, cur) ==
    IF tso = "chubu" THEN Numbered(test_years(Y, cur))
    ELSE IF tso = "tohoku" THEN Numbered(version_numbers)
    ELSE Numbered(<<0>>)

dc_candidates(tso, cur) ==
    IF tso = "chubu" THEN Numbered(alt_years(cur)) ELSE <<>>

\* download_csv: `url` before any probe succeeded is the template's own URL,
\* requested after the probes.
dc_template(tso, cur) ==
    IF tso = "chubu" THEN [pos |-> Len(alt_years(cur)) + 1, tag |-> TemplateYear]
    ELSE [pos |-> 1, tag |-> 0]

\* download_content, lines 38-46: raise_for_status, then the body (b'' when
\* the response is empty).
download_content(resp) == IF Is2xx(resp) THEN resp.body ELSE "raised"

\* fetch_data: does the branch for tso take this answer as the result?
\* chubu, line 101 `if content:`; tohoku, lines 143-149; all others return
\* whatever download_content returned, lines 165-172.
fd_accepts(tso, resp) ==
    IF tso \in {"chubu", "tohoku"}
    THEN download_content(resp) = "full"
    ELSE download_content(resp) # "raised"

\* download_csv, lines 229 and 255: a probe counts when status_code == 200.
dc_probe_accepts(resp) == resp.status = "200"

Remaining_noBreak(accepted, todo) == Tail(todo)

\* The candidates still to request once one answer is in: `return content`
\* (lines 104, 145, 149) and `break` (line 231) leave the loop.
Remaining(accepted, todo) == IF accepted THEN <<>> ELSE Tail(todo)

\* No writer call has been made.
NoCall == [writer |-> "none", df |-> EmptyFrame, check |-> FALSE, pre |-> EmptyTable,
           ret |-> 0, raised |-> FALSE, repeat |-> FALSE]

WIdle ==
    /\ wTable = EmptyTable
    /\ wExists = TRUE
    /\ wViews = {}
    /\ wConn = FALSE
    /\ wCall = NoCall

FIdle ==
    /\ fImpl = "idle" /\ fTso = "none" /\ fYear = 0 /\ fNow = 0
    /\ fTodo = <<>> /\ fUrl = [pos |-> 0, tag |-> 0] /\ fLog = <<>> /\ fOut = "idle"

FInit == WIdle /\ FIdle /\ IIdle /\ PIdle /\ CIdle /\ JIdle /\ DIdle /\ XIdle

\* fetch_data(tso_id, base_url, target_date) is called.
FetchDataStart ==
    /\ fImpl = "idle"
    /\ \E tso \in Tsos, Y \in Years, cur \in NowYears :
        /\ fImpl' = "fetch_data"
        /\ fTso' = tso /\ fYear' = Y /\ fNow' = cur
        /\ fTodo' = fd_candidates(tso, Y, cur)
    /\ fOut' = "running"
    /\ UNCHANGED <<fUrl, fLog, wvars, ivars, pvars, cvars, jvars, dvars, xvars>>

\* fetch_data: one pass of the candidate loop (or the single request of the
\* last branch).
FetchDataRequest ==
    /\ fImpl = "fetch_data" /\ fOut = "running"
    /\ \E resp \in Responses :
        LET accepted == fd_accepts(fTso, resp)
            todo == Remaining(accepted, fTodo)
        IN /\ fLog' = Append(fLog, [pos |-> Head(fTodo).pos, tag |-> Head(fTodo).tag,
                                    resp |-> resp, accepted |-> accepted])
           /\ fTodo' = todo
           /\ fOut' = IF accepted
                      THEN (IF resp.body = "full" THEN "content" ELSE "empty")
                      ELSE IF todo = <<>> THEN "raised" ELSE "running"
    /\ UNCHANGED <<fImpl, fTso, fYear, fNow, fUrl, wvars, ivars, pvars, cvars, jvars, dvars, xvars>>

\* download_csv(target_date, tso_id) is called.
DownloadCsvStart ==
    /\ fImpl = "idle"
    /\ \E tso \in Tsos, Y \in Years, cur \in NowYears :
        /\ fImpl' = "download_csv"
        /\ fTso' = tso /\ fYear' = Y /\ fNow' = cur
        /\ fTodo' = dc_candidates(tso, cur)
        /\ fUrl' = dc_template(tso, cur)
    /\ fOut' = "running"
    /\ UNCHANGED <<fLog, wvars, ivars, pvars, cvars, jvars, dvars, xvars>>

\* download_csv, lines 224-233: one probe of an alternative year.  The probe
\* is inside the function's try: a RequestException ends the call (line 281).
DownloadCsvProbe ==
    /\ fImpl = "download_csv" /\ fOut = "running" /\ fTodo # <<>>
    /\ \E resp \in Responses :
        LET accepted == dc_probe_accepts(resp)
        IN /\ fLog' = Append(fLog, [pos |-> Head(fTodo).pos, tag |-> Head(fTodo).tag,
                                    resp |-> resp, accepted |-> accepted])
           /\ fTodo' = IF resp.status = "exc" THEN <<>> ELSE Remaining(accepted, fTodo)
           /\ fOut' = IF resp.status = "exc" THEN "raised" ELSE fOut
           /\ fUrl' = IF accepted
                      THEN [pos |-> Head(fTodo).pos, tag |-> Head(fTodo).tag]
                      ELSE fUrl
    /\ UNCHANGED <<fImpl, fTso, fYear, fNow, wvars, ivars, pvars, cvars, jvars, dvars, xvars>>

\* download_csv, lines 264-279: the GET of `url`, raise_for_status, then the
\* archive (an empty archive is a BadZipFile) or the empty-text check.
DownloadCsvGet ==
    /\ fImpl = "download_csv" /\ fOut = "running" /\ fTodo = <<>>
    /\ \E resp \in Responses :
        LET accepted == Is2xx(resp) /\ resp.body = "full"
        IN /\ fLog' = Append(fLog, [pos |-> fUrl.pos, tag |-> fUrl.tag,
                                    resp |-> resp, accepted |-> accepted])
           /\ fOut' = IF accepted THEN "content" ELSE "raised"
    /\ UNCHANGED <<fImpl, fTso, fYear, fNow, fTodo, fUrl, wvars, ivars, pvars, cvars, jvars, dvars, xvars>>

FNext ==
    \/ FetchDataStart
    \/ FetchDataRequest
    \/ DownloadCsvStart
    \/ DownloadCsvProbe
    \/ DownloadCsvGet

SpecFetch == FInit /\ [][FNext]_vars

\* The request log up to entry j shows the candidate loop's discipline.
InOrder(j) == \A i \in 1..(j - 1) : fLog[i].pos <= fLog[j].pos
NothingAfterSuccess(j) == \A i \in 1..(j - 1) : fLog[i].accepted => fLog[j].pos = fLog[i].pos
EarlierAllFailed(j) ==
    \A p \in 1..(fLog[j].pos - 1) : \E i \in 1..(j - 1) : fLog[i].pos = p /\ ~fLog[i].accepted

YearSearch(Y, cur) ==
    LET add(seq, y) == IF y <= cur /\ (\A i \in 1..Len(seq) : seq[i] # y)
                       THEN Append(seq, y) ELSE seq
    IN add(add(add(add(<<>>, Y), Y - 1), Y + 1), cur)

\* C7: for the year-search source (chubu) the i-th candidate requested is
\* for the i-th year of Y, Y-1, Y+1, current year (deduplicated, none above
\* the current year).
C7_YearSearchOrder ==
    fTso = "chubu" =>
        \A j \in 1..Len(fLog) :
            /\ fLog[j].pos <= Len(YearSearch(fYear, fNow))
            /\ fLog[j].tag = YearSearch(fYear, fNow)[fLog[j].pos]

\* C8: only a 2xx answer with a non-empty body is taken as the result, and no
\* call returns empty content.
C8_SuccessNeedsBody ==
    /\ fOut # "empty"
    /\ \A j \in 1..Len(fLog) :
          fLog[j].accepted => (Is2xx(fLog[j].resp) /\ fLog[j].resp.body = "full")

----------------------------------------------------------------------------
(* SpecWriter: any sequence of calls of the three writers on one target    *)
(* table.                                                                  *)

\* The store after the call r, and the record of the call.  repeat: the call
\* before it was the same writer's, with the same batch and options, and
\* neither raised.
Apply(w, df, check, r) ==
    /\ RowCount(r.table) <= MaxTable
    /\ wTable' = r.table
    /\ wExists' = r.exists
    /\ wViews' = r.views
    /\ wCall' = [writer |-> w, df |-> df, check |-> check, pre |-> wTable,
                 ret |-> r.ret, raised |-> r.raised,
                 repeat |-> /\ wCall.writer = w /\ wCall.df = df
                            /\ wCall.check = check
                            /\ ~wCall.raised /\ ~r.raised]

WInit ==
    /\ FIdle /\ IIdle /\ PIdle /\ CIdle /\ JIdle /\ DIdle /\ XIdle
    /\ wTable = EmptyTable
    /\ wExists \in BOOLEAN
    /\ wViews = {}
    /\ wConn \in BOOLEAN      \* the singleton was constructed; its connect may have failed
    /\ wCall = NoCall

\* db.duckdb_connection.DuckDBConnection.save_dataframe(df, table, if_exists,
\* check_duplicate_master_key)
SaveDataframe ==
    \E df \in DataFrames, if_exists \in {"append", "replace"},
       check \in BOOLEAN :
        /\ Apply("db", df, check,
                 save_dataframe(df, wTable, wExists, wViews, if_exists, check))
        /\ UNCHANGED <<wConn, fvars, ivars, pvars, cvars, jvars, dvars, xvars>>

\* data_sources.db_connection.DuckDBConnection.save_dataframe(df, table)
DsSaveDataframe ==
    \E df \in DataFrames, insertOk \in BOOLEAN :
        /\ Apply("ds", df, FALSE,
                 ds_save_dataframe(df, wTable, wExists, wViews, wConn, insertOk))
        /\ UNCHANGED <<wConn, fvars, ivars, pvars, cvars, jvars, dvars, xvars>>

\* JMAWeatherDBImporter.import_dataframe(df)
JmaImportDataframe ==
    \E df \in DataFrames, insertOk \in BOOLEAN, changesOk \in BOOLEAN :
        /\ Apply("jma", df, TRUE,
                 import_dataframe(df, wTable, wExists, wViews, insertOk, changesOk))
        /\ UNCHANGED <<wConn, fvars, ivars, pvars, cvars, jvars, dvars, xvars>>

\* data_sources.db_connection.DuckDBConnection(): __init__ connects when there
\* is no connection; a failed duckdb.connect leaves _connection = None.
DsConnect ==
    /\ ~wConn
    /\ \E ok \in BOOLEAN : wConn' = ok
    /\ UNCHANGED <<wTable, wExists, wViews, wCall, fvars, ivars, pvars, cvars, jvars, dvars, xvars>>

\* data_sources.db_connection.DuckDBConnection.close(): the views registered
\* on the connection go with it.
DsClose ==
    /\ wConn
    /\ wConn' = FALSE
    /\ wViews' = {}
    /\ UNCHANGED <<wTable, wExists, wCall, fvars, ivars, pvars, cvars, jvars, dvars, xvars>>

WNext ==
    \/ SaveDataframe
    \/ DsSaveDataframe
    \/ JmaImportDataframe
    \/ DsConnect
    \/ DsClose

SpecWriter == WInit /\ [][WNext]_vars

----------------------------------------------------------------------------
(* Claims about the writers (SpecWriter) *)

\* The batch of the last call has distinct, non-null master keys, none of
\* them stored before the call, and the target table exists.
FreshBatch ==
    /\ wExists
    /\ ~HasNull(wCall.df)
    /\ \A k \in Keys : wCall.df[k] <= 1 /\ (wCall.df[k] = 1 => wCall.pre[k] = 0)

RowsAdded == RowCount(wTable) - RowCount(wCall.pre)

\* C1: when db.duckdb_connection's save_dataframe, with the master_key
\* duplicate check, is given the same batch a second time, the second call
\* leaves the table's row count as the first call left it and reports 0 (or
\* unknown), never a positive number.
C1_ReingestAddsNothing ==
    (wCall.writer = "db" /\ wCall.check /\ wCall.repeat)
        => (RowsAdded = 0 /\ wCall.ret \in {0, UNKNOWN})

\* A non-empty batch has been given twice in a row to save_dataframe.
C1_Witness ==
    /\ wCall.writer = "db" /\ wCall.check /\ wCall.repeat
    /\ RowCount(wCall.df) = MaxRows
    /\ wExists

\* C2: a first ingestion of N records with distinct non-null master keys,
\* none present in the table, stores all N and reports inserted = N.
C2_FirstIngestStoresAll ==
    (wCall.writer = "db" /\ wCall.check /\ ~wCall.raised /\ FreshBatch)
        => /\ wCall.ret = RowCount(wCall.df)
           /\ \A k \in Keys : wCall.df[k] = 1 => wTable[k] = 1

\* The view name each writer registers its batch under.
ViewOf(w) == IF w = "db" THEN TempView ELSE IF w = "ds" THEN TempDf ELSE JmaView

\* C9: whatever view a writer registers for its batch is unregistered when
\* the call has returned or raised.
C9_ViewReleased ==
    wCall.writer # "none" => ViewOf(wCall.writer) \notin wViews

\* C10: a numeric inserted-row count reported by a writer is the number of
\* rows the call added to the target table (so an undetermined count is never
\* reported as a number).
C10_CountIsExact ==
    (wCall.writer # "none" /\ ~wCall.raised /\ wCall.ret # UNKNOWN)
        => wCall.ret = RowsAdded

----------------------------------------------------------------------------
(* SpecImport: up to MaxRuns calls of import_from_downloader on one         *)
(* database, each over a list of TSOs and a range of months.                *)

IInit == WIdle /\ FIdle /\ IIdle /\ PIdle /\ CIdle /\ JIdle /\ DIdle /\ XIdle

\* import_from_downloader(tso_ids, start_date, end_date) is called.
StartRun ==
    /\ iPc = "idle" /\ iRun < MaxRuns
    /\ \E tso_ids \in TsoLists, first \in PeriodSet, last \in PeriodSet :
        /\ iTsoIds' = tso_ids
        /\ iStart' = first_day(first)
        /\ iEnd' = last_day(last)
        /\ iMonths' = months_to_process(first_day(first), last_day(last))
    /\ iT' = 1 /\ iData' = <<>> /\ iPc' = "download"
    /\ iFetched' = {} /\ iSkipped' = {} /\ iLast' = NoBatch
    /\ UNCHANGED <<iArea, iTsoData, iTx, iRun, wvars, fvars, pvars, cvars, jvars, dvars, xvars>>

\* download_files, lines 650-688: one month of the current TSO.  "error": an
\* exception of download_csv or process_csv (every candidate failed, a bad
\* archive, undecodable or unparsable text), caught at line 687; "empty": no
\* rows, or none in the range.
DownloadMonth ==
    /\ iPc = "download" /\ iMonths # <<>>
    /\ \/ \E outcome \in {"error", "empty"} : iData' = iData
       \/ \E df \in Frames(iStart, iEnd) :
            iData' = Append(iData, [period |-> Head(iMonths), keys |-> df.keys,
                                    slot |-> df.slot])
    /\ iFetched' = iFetched \cup {<<iTsoIds[iT], Head(iMonths)>>}
    /\ iMonths' = Tail(iMonths)
    /\ iLast' = NoBatch
    /\ UNCHANGED <<iArea, iTsoData, iTx, iRun, iPc, iTsoIds, iStart, iEnd, iT, iSkipped,
                   wvars, fvars, pvars, cvars, jvars, dvars, xvars>>

\* import_from_downloader, line 536: on to the next TSO, or the run returns.
NextTso ==
    IF iT < Len(iTsoIds)
    THEN /\ iT' = iT + 1
         /\ iMonths' = months_to_process(iStart, iEnd)
         /\ iPc' = "download"
         /\ UNCHANGED iRun
    ELSE /\ iPc' = "idle" /\ iRun' = iRun + 1
         /\ iMonths' = <<>>
         /\ UNCHANGED iT

\* import_from_downloader, lines 544-546: nothing was downloaded for the TSO.
NoData ==
    /\ iPc = "download" /\ iMonths = <<>> /\ iData = <<>>
    /\ NextTso
    /\ iLast' = NoBatch
    /\ UNCHANGED <<iArea, iTsoData, iTx, iTsoIds, iStart, iEnd, iData, iFetched, iSkipped,
                   wvars, fvars, pvars, cvars, jvars, dvars, xvars>>

\* import_from_downloader, lines 549-604: the batch of the TSO's data_list
\* begins.
BeginBatch ==
    /\ iPc = "download" /\ iMonths = <<>> /\ iData # <<>>
    /\ \E deleteOk \in BOOLEAN :
       \E r \in {begin_batch(Db(iArea, iTsoData, iTx), iTsoIds[iT], iData, iStart, iEnd,
                             deleteOk)} :
           /\ iArea' = r.db.area
           /\ iTsoData' = r.db.tsodata
           /\ iTx' = r.db.tx
           /\ iLast' = [tso |-> iTsoIds[iT], area |-> iArea, tsodata |-> iTsoData,
                        frames |-> Len(iData), failed |-> r.failed, refused |-> FALSE,
                        deleted |-> r.db.area # iArea \/ r.db.tsodata # iTsoData,
                        done |-> FALSE]
    /\ iPc' = "import"
    /\ UNCHANGED <<iRun, iTsoIds, iStart, iEnd, iT, iMonths, iData, iFetched, iSkipped,
                   wvars, fvars, pvars, cvars, jvars, dvars, xvars>>

\* import_data, lines 205-480: the turn of one frame.  An exception that
\* leaves import_data ends the batch (import_from_downloader, lines 617-624).
ImportFrame ==
    /\ iPc = "import" /\ iData # <<>>
    /\ \E bad \in SUBSET IKeys :
       \E r \in {import_frame(Db(iArea, iTsoData, iTx), iTsoIds[iT], Head(iData), bad)} :
           /\ iLast' = [iLast EXCEPT !.failed = @ \/ r.failed,
                                     !.refused = @ \/ r.refused,
                                     !.done = r.raised]
           /\ IF r.raised
              THEN \E db \in {end_batch(r.db, TRUE)} :
                    /\ iArea' = db.area /\ iTsoData' = db.tsodata /\ iTx' = db.tx
                    /\ iSkipped' = iSkipped \cup
                            {<<iTsoIds[iT], Tail(iData)[i].period>> : i \in 1..(Len(iData) - 1)}
                    /\ iData' = <<>>
                    /\ NextTso
              ELSE /\ iArea' = r.db.area /\ iTsoData' = r.db.tsodata /\ iTx' = r.db.tx
                   /\ iData' = Tail(iData)
                   /\ UNCHANGED <<iSkipped, iPc, iRun, iT, iMonths>>
    /\ UNCHANGED <<iTsoIds, iStart, iEnd, iFetched, wvars, fvars, pvars, cvars, jvars, dvars, xvars>>

\* import_from_downloader, lines 607-624: import_data has returned; COMMIT.
EndBatch ==
    /\ iPc = "import" /\ iData = <<>>
    /\ \E db \in {end_batch(Db(iArea, iTsoData, iTx), FALSE)} :
        /\ iArea' = db.area /\ iTsoData' = db.tsodata /\ iTx' = db.tx
    /\ iLast' = [iLast EXCEPT !.done = TRUE]
    /\ NextTso
    /\ UNCHANGED <<iTsoIds, iStart, iEnd, iData, iFetched, iSkipped, wvars, fvars, pvars, cvars, jvars, dvars, xvars>>

INext ==
    \/ StartRun
    \/ DownloadMonth
    \/ NoData
    \/ BeginBatch
    \/ ImportFrame
    \/ EndBatch

SpecImport == IInit /\ [][INext]_vars

\* C3: after any runs, no table holds two rows with one master_key.
C3_UniqueMasterKey ==
    /\ \A t \in RunTsos, k \in IKeys : iArea[t][k] <= 1
    /\ \A k \in IKeys : TsoDataRows(iTsoData, k) <= 1

\* A re-run over months already stored has returned: its batch deleted rows,
\* offered a key the table still held, and rows are stored for both sources.
C3_Witness ==
    /\ iRun >= 2 /\ iPc = "idle"
    /\ iLast.done /\ iLast.refused /\ iLast.deleted
    /\ \A t \in RunTsos : iArea[t] # EmptyArea

\* C4: a batch in which an SQL statement failed leaves the tables as they
\* were before it.
C4_FailedBatchRolledBack ==
    (iLast.done /\ iLast.failed) => (iArea = iLast.area /\ iTsoData = iLast.tsodata)

\* The (tso, month) pairs of the run.
RunPairs == {<<iTsoIds[i], iMonths0>> : i \in 1..Len(iTsoIds),
                                        iMonths0 \in {months_to_process(iStart, iEnd)[j] :
                                            j \in 1..Len(months_to_process(iStart, iEnd))}}

\* C5: when a run has returned, the download of every (tso, month) of the run
\* was attempted and every downloaded frame had its turn at persistence,
\* whatever failed before it.
C5_FailureIsolated ==
    (iPc = "idle" /\ iRun > 0) => (iFetched = RunPairs /\ iSkipped = {})

----------------------------------------------------------------------------
(* SpecParse: one input is drawn, and one operation of the parsing and      *)
(* mapping stage is applied to it.                                          *)

MaxYears == 2               \* years a date range may touch

\* The columns of a JMA file after the date column: first-row label and
\* second-row cell (blank, pandas' placeholder "Unnamed: 2_level_1", or a label).
HeaderColumns ==
    {<<Kion, <<>>>>, <<Kion, Unnamed \o <<Space, 50, Underscore, 108, 101, 118, 101, 108,
                                            Underscore, 49>>>>,
     <<Kion, HinshitsuJoho>>, <<Fusoku, <<>>>>, <<Fusoku, Fuko>>}

\* The inputs: a TIME cell; a raw frame and the source it is of (also the one-row
\* frames dated "2024-01-01" and "2024-02-30"); two readings,
\* each a row of the file of one source; an archive and the source; a content
\* that is no archive and the source.
Inputs ==
    {[kind |-> "time", time |-> t] : t \in TimeCells}
    \cup {[kind |-> "frame", df |-> df, tso_id |-> t] : df \in RawFrames, t \in RunTsos}
    \cup {[kind |-> "frame", df |-> [cols |-> StdColumns, rows |-> <<[GoodRow EXCEPT !.date = d]>>],
            tso_id |-> t] :
            d \in {IsoDate, <<50, 48, 50, 52, Hyphen, 48, 50, Hyphen, 51, 48>>}, t \in RunTsos}
    \cup {[kind |-> "pair", a |-> a, b |-> b] :
            a, b \in {[tso_id |-> t, row |-> [GoodRow EXCEPT !.date = d, !.time = h]] :
                        t \in RunTsos, d \in {GoodDate, OtherDate}, h \in FrameTimes}}
    \cup {[kind |-> "zip", zip |-> z, tso_id |-> t] : z \in Archives, t \in {"chubu", "tohoku"}}
    \cup {[kind |-> "csv", content |-> c, tso_id |-> t] :
            c \in Contents, t \in {"chubu", "tohoku"}}
    \cup {[kind |-> "range", start_date |-> a, end_date |-> b] :
            a, b \in {[y |-> y, m |-> m, d |-> d] :
                        y \in 2023..(2023 + MaxYears - 1), m \in {1, 2, 12},
                        d \in {1, 15, 28}}}
    \cup {[kind |-> "header", columns |-> <<<<NenGappiJi, <<>>>>>> \o c] :
            c \in UNION {[1..n -> HeaderColumns] : n \in 1..2}}

PInit == WIdle /\ FIdle /\ IIdle /\ CIdle /\ JIdle /\ DIdle /\ XIdle /\ pOp = "input" /\ pIn \in Inputs /\ pOut = Nothing

\* TSODataParser._process_demand_data converts one TIME cell.
ParserTimeToSlot ==
    /\ pOp = "input" /\ pIn.kind = "time"
    /\ pOp' = "parser.time_to_slot"
    /\ pOut' = [slot |-> time_to_slot(pIn.time)]
    /\ UNCHANGED <<pIn, wvars, fvars, ivars, cvars, jvars, dvars, xvars>>

\* TSODataParser._set_column_names_for_chubu converts one TIME cell.
ChubuTimeToSlot ==
    /\ pOp = "input" /\ pIn.kind = "time"
    /\ pOp' = "chubu.time_to_slot"
    /\ pOut' = [slot |-> chubu_time_to_slot(pIn.time)]
    /\ UNCHANGED <<pIn, wvars, fvars, ivars, cvars, jvars, dvars, xvars>>

\* TSODataImporter.import_data converts one slot cell.
ImporterTimeToSlot ==
    /\ pOp = "input" /\ pIn.kind = "time"
    /\ pOp' = "importer.time_to_slot"
    /\ pOut' = [slot |-> importer_time_to_slot(pIn.time)]
    /\ UNCHANGED <<pIn, wvars, fvars, ivars, cvars, jvars, dvars, xvars>>

\* TSODataParser._process_demand_data maps a frame.
ProcessDemandData ==
    /\ pOp = "input" /\ pIn.kind = "frame"
    /\ pOp' = "parser._process_demand_data"
    /\ pOut' = process_demand_data(pIn.df)
    /\ UNCHANGED <<pIn, wvars, fvars, ivars, cvars, jvars, dvars, xvars>>

\* TSODataParser._set_column_names_for_chubu maps a frame.
SetColumnNamesForChubu ==
    /\ pOp = "input" /\ pIn.kind = "frame"
    /\ pOp' = "parser._set_column_names_for_chubu"
    /\ pOut' = set_column_names_for_chubu(pIn.df)
    /\ UNCHANGED <<pIn, wvars, fvars, ivars, cvars, jvars, dvars, xvars>>

\* UnifiedTSODownloader._process_demand_data maps a frame.
UnifiedProcessDemandData ==
    /\ pOp = "input" /\ pIn.kind = "frame"
    /\ pOp' = "unified._process_demand_data"
    /\ pOut' = unified_process_demand_data(pIn.df, pIn.tso_id)
    /\ UNCHANGED <<pIn, wvars, fvars, ivars, cvars, jvars, dvars, xvars>>

\* Two downloads are mapped for tso_data, the table all sources share:
\* download_files hands each frame of _process_demand_data to import_data,
\* which inserts its master_key as it is (db_importer.py lines 432-471).
TsoDataKeys ==
    /\ pOp = "input" /\ pIn.kind = "pair"
    /\ pOp' = "tso_data.master_key"
    /\ pOut' = [a |-> unified_process_demand_data(
                        [cols |-> StdColumns, rows |-> <<pIn.a.row>>], pIn.a.tso_id),
                b |-> unified_process_demand_data(
                        [cols |-> StdColumns, rows |-> <<pIn.b.row>>], pIn.b.tso_id)]
    /\ UNCHANGED <<pIn, wvars, fvars, ivars, cvars, jvars, dvars, xvars>>

\* UnifiedTSODownloader.download_csv hands the answer of a .zip URL to
\* _process_zip_file (line 273).
UnifiedProcessZipFile ==
    /\ pOp = "input" /\ pIn.kind = "zip"
    /\ pOp' = "unified._process_zip_file"
    /\ pOut' = unified_process_zip_file(pIn.zip, pIn.tso_id)
    /\ UNCHANGED <<pIn, wvars, fvars, ivars, cvars, jvars, dvars, xvars>>

\* TSODataParser.parse_data on an archive of chubu (lines 70-72).
ParseDataZip ==
    /\ pOp = "input" /\ pIn.kind = "zip" /\ pIn.tso_id = "chubu"
    /\ pOp' = "parser.parse_data"
    /\ pOut' = parser_process_zip_file(pIn.zip)
    /\ UNCHANGED <<pIn, wvars, fvars, ivars, cvars, jvars, dvars, xvars>>

\* TSODataParser.parse_data on bytes that are no archive (lines 75-157).
ParseDataCsv ==
    /\ pOp = "input" /\ pIn.kind = "csv"
    /\ pOp' = "parser.parse_data"
    /\ pOut' = parse_csv(pIn.content, pIn.tso_id)
    /\ UNCHANGED <<pIn, wvars, fvars, ivars, cvars, jvars, dvars, xvars>>

\* parse_jma_csv names the columns of an hourly file.
ParseJmaCsv ==
    /\ pOp = "input" /\ pIn.kind = "header"
    /\ pOp' = "jma.parse_jma_csv"
    /\ pOut' = [columns |-> parse_jma_csv(pIn.columns)]
    /\ UNCHANGED <<pIn, wvars, fvars, ivars, cvars, jvars, dvars, xvars>>

\* download_files lists the months of a range.
MonthsToProcess ==
    /\ pOp = "input" /\ pIn.kind = "range"
    /\ pOp' = "unified.download_files"
    /\ pOut' = [months |-> months_to_process(pIn.start_date, pIn.end_date)]
    /\ UNCHANGED <<pIn, wvars, fvars, ivars, cvars, jvars, dvars, xvars>>

\* month_range yields the months of a range.
MonthRange ==
    /\ pOp = "input" /\ pIn.kind = "range"
    /\ pOp' = "jma.month_range"
    /\ pOut' = [months |-> [i \in 1..Len(month_range(pIn.start_date, pIn.end_date)) |->
                                [y |-> month_range(pIn.start_date, pIn.end_date)[i].y,
                                 m |-> month_range(pIn.start_date, pIn.end_date)[i].m]],
                days |-> month_range(pIn.start_date, pIn.end_date)]
    /\ UNCHANGED <<pIn, wvars, fvars, ivars, cvars, jvars, dvars, xvars>>

\* download_range requests the months of a range.
DownloadRange ==
    /\ pOp = "input" /\ pIn.kind = "range"
    /\ pOp' = "tso_demand.download_range"
    /\ pOut' = [months |-> download_range(pIn.start_date, pIn.end_date)]
    /\ UNCHANGED <<pIn, wvars, fvars, ivars, cvars, jvars, dvars, xvars>>

PNext ==
    \/ MonthsToProcess
    \/ MonthRange
    \/ DownloadRange
    \/ ParseJmaCsv
    \/ ParserTimeToSlot
    \/ ChubuTimeToSlot
    \/ ImporterTimeToSlot
    \/ ProcessDemandData
    \/ SetColumnNamesForChubu
    \/ UnifiedProcessDemandData
    \/ TsoDataKeys
    \/ UnifiedProcessZipFile
    \/ ParseDataZip
    \/ ParseDataCsv

SpecParse == PInit /\ [][PNext]_vars

\* C11: every conversion of an "HH:MM" time to a slot follows one rule: "HH:00" gives
\* hour * 2 + 1, "HH:30" gives hour * 2 + 2, and "24:00" gives 48.
SlotConversions == {"parser.time_to_slot", "chubu.time_to_slot", "importer.time_to_slot"}
C11_OneSlotRule ==
    pOp \in SlotConversions =>
        /\ \A h \in 0..23 :
              /\ pIn.time = HHMM(h, 0) => pOut.slot = h * 2 + 1
              /\ pIn.time = HHMM(h, 30) => pOut.slot = h * 2 + 2
        /\ pIn.time = HHMM(24, 0) => pOut.slot = 48

\* C12: every record a mapper emits carries an integer slot between 1 and 48, whatever
\* the TIME cells of the input were.
ParserMappers == {"parser._process_demand_data", "parser._set_column_names_for_chubu"}
C12_SlotInRange ==
    pOp \in ParserMappers =>
        \A k \in 1..Len(pOut.records) : pOut.records[k].slot \in 1..48

\* C13: the master key is injective over (date, slot, source): two records of the shared
\* table with the same master_key have the same date, the same slot and the same source.
C13_KeyInjective ==
    pOp = "tso_data.master_key" =>
        \A i \in 1..Len(pOut.a.records), j \in 1..Len(pOut.b.records) :
            pOut.a.records[i].master_key = pOut.b.records[j].master_key =>
                /\ pOut.a.records[i].date = pOut.b.records[j].date
                /\ pOut.a.records[i].slot = pOut.b.records[j].slot
                /\ pOut.a.records[i].tso_id = pOut.b.records[j].tso_id

\* C14: a row whose date or slot cannot be parsed never appears among the emitted
\* records, while the other rows of the batch are still emitted (a row repeating the
\* date and time of an earlier row is a duplicate, not a remaining row).
Mappers == ParserMappers \cup {"unified._process_demand_data"}
Mappable == pIn.df.cols = StdColumns
DateUnparsable(row) == to_datetime(row.date) = NaT
SlotUnparsable(row) ==
    \/ isna(row.time)
    \/ Len(split(row.time, Colon)) # 2
    \/ \E p \in 1..Len(split(row.time, Colon)) : int_raises(split(row.time, Colon)[p])
EmittedRow(i) == \E k \in 1..Len(pOut.records) : pOut.records[k].index = i
C14_BadRowsDropped ==
    (pOp \in Mappers /\ Mappable) =>
        \A i \in 1..Len(pIn.df.rows) :
            LET row == pIn.df.rows[i]
            IN /\ (DateUnparsable(row) \/ SlotUnparsable(row)) => ~EmittedRow(i)
               /\ (~DateUnparsable(row) /\ ~SlotUnparsable(row)
                     /\ \A j \in 1..(i - 1) : pIn.df.rows[j].date # row.date
                                               \/ pIn.df.rows[j].time # row.time)
                   => EmittedRow(i)

\* C15: every emitted record has a number, never a null, in its metric field: 0 when the
\* metric's column is absent from the input, 0 when the cell cannot be coerced to a number;
\* and a batch whose only missing column is a metric is not rejected.
Uncoercible(cell) == isna(cell) \/ int_raises(replace_none(cell, Comma))
C15_MetricsAreNumbers ==
    pOp \in Mappers =>
        /\ \A k \in 1..Len(pOut.records) :
              LET rec == pOut.records[k]
              IN /\ rec.metric # None
                 /\ "metric" \notin pIn.df.cols => rec.metric = 0
                 /\ Uncoercible(pIn.df.rows[rec.index].metric) => rec.metric = 0
        /\ (/\ pIn.df.cols = StdColumns \ {"metric"}
            /\ \E i \in 1..Len(pIn.df.rows) :
                  ~DateUnparsable(pIn.df.rows[i]) /\ ~SlotUnparsable(pIn.df.rows[i]))
           => ~pOut.raised /\ pOut.records # <<>>

\* C16: when the date or the slot column cannot be mapped, the batch is rejected with an
\* error signalled to the caller; it is not handed back as a successful empty result.
C16_UnmappableRaises ==
    (pOp \in ParserMappers /\ ("date" \notin pIn.df.cols \/ "slot" \notin pIn.df.cols))
        => pOut.raised

\* C17: from an archive exactly one member is used: the first member matching the
\* highest-priority name pattern that matches any (year and month together, then year
\* and month apart, then the month's name), else the first eligible member.
ZipOps == {"unified._process_zip_file", "parser.parse_data"}
Eligible == csv_files(pIn.zip)
Matching(p) == {i \in Eligible : pIn.zip.members[i].name = Patterns[p]}
ExpectedMember ==
    IF Matching(1) # {} THEN Min(Matching(1))
    ELSE IF Matching(2) # {} THEN Min(Matching(2))
    ELSE IF Matching(3) # {} THEN Min(Matching(3))
    ELSE Min(Eligible)
C17_OneMemberByPriority ==
    (pOp \in ZipOps /\ pIn.kind = "zip" /\ pIn.zip.valid /\ Eligible # {})
        => pOut.used = <<ExpectedMember>>

\* C18: extraction ends with an error signalled whenever the bytes are no archive or the
\* archive has no CSV member; it never hands back data or an empty result then.
C18_BadArchiveRaises ==
    (pOp \in ZipOps /\ pIn.kind = "zip" /\ (~pIn.zip.valid \/ Eligible = {}))
        => pOut.raised

\* C19: when read_csv under the header assumption fails structurally, the parser reads
\* the same input once more with no header rows; a parse error is surfaced only if both
\* reads failed; no input is read more than twice.
ReadsOf(m) == SelectSeq(pOut.reads, LAMBDA r : r.member = m)
FailsUnderHeader(m) ==
    IF pIn.kind = "zip" THEN pIn.zip.members[m].content = "broken"
    ELSE pIn.content.read1 = "ParserError"
C19_RetryOnce ==
    pOp = "parser.parse_data" =>
        /\ \A m \in 0..MaxMembers :
              /\ Len(ReadsOf(m)) <= 2
              /\ (ReadsOf(m) # <<>> /\ FailsUnderHeader(m))
                    => ReadsOf(m) = <<Read(m, "1"), Read(m, "None")>>
        /\ pOut.raised => \E m \in 0..MaxMembers : Len(ReadsOf(m)) = 2

\* C20: decoding never fails outright: any non-empty bytes give some text, decoded
\* lossily with the primary encoding when no strict decode works and the guess is
\* not confident.
C20_AlwaysSomeText ==
    (pOp = "parser.parse_data" /\ pIn.kind = "csv") => pOut.text # "none"

\* C21: date normalization accepts YYYY/MM/DD and YYYY-MM-DD alike and emits
\* the canonical YYYYMMDD text of the day either way: a row whose date is well
\* formed in either shape (whose time is a proper one, and which repeats no
\* earlier row's date) is emitted, and the date it carries is the day's YYYYMMDD.
WellFormedDate(cell) == strptime(cell, Slash) # NaT \/ strptime(cell, Hyphen) # NaT
DayOf(cell) == IF strptime(cell, Slash) # NaT THEN strptime(cell, Slash) ELSE strptime(cell, Hyphen)
C21_BothShapesCanonical ==
    (pOp \in Mappers /\ Mappable) =>
        \A i \in 1..Len(pIn.df.rows) :
            (/\ WellFormedDate(pIn.df.rows[i].date)
             /\ pIn.df.rows[i].time = HHMM(0, 0)
             /\ \A j \in 1..(i - 1) : pIn.df.rows[j].date # pIn.df.rows[i].date)
            => \E k \in 1..Len(pOut.records) :
                    /\ pOut.records[k].index = i
                    /\ pOut.records[k].date = strftime_Ymd(DayOf(pIn.df.rows[i].date))

\* C22: for the version-suffix source (tohoku) the j-th candidate requested
\* by fetch_data is the template's URL with only the two digits before ".csv"
\* replaced, by 01, 02, 03, 04, 05 in this order; no more than five are
\* requested.
C22_VersionSuffixOrder ==
    (fImpl = "fetch_data" /\ fTso = "tohoku") =>
        /\ Len(fLog) <= 5
        /\ \A j \in 1..Len(fLog) :
            LET url == alt_url(TohokuUrl, TwoDigits(fLog[j].tag))
                n == Len(TohokuUrl)
            IN /\ fLog[j].pos = j
               /\ Len(url) = n
               /\ \A q \in 1..n : q \notin {n - 5, n - 4} => url[q] = TohokuUrl[q]
               /\ <<url[n - 5], url[n - 4]>> = TwoDigits(j)

\* All five versions of tohoku's file were requested and none was taken.
C22_Witness ==
    fImpl = "fetch_data" /\ fTso = "tohoku" /\ Len(fLog) = 5 /\ fOut = "raised"

----------------------------------------------------------------------------
(* SpecCommand: one run of the ingest command, db_importer.main or         *)
(* main.py's tso-data, down to the GETs and sleeps of download_files.      *)

sleep_min == 1      \* download_files' default, unified_downloader.py:615
sleep_max == 5      \* unified_downloader.py:616

\* import_from_downloader, lines 536-541, and download_files, lines 636-650:
\* the TSOs in the order given, and for each the months of the range.
RECURSIVE Iterations(_, _)
Iterations(tso_ids, months) ==
    IF tso_ids = <<>> THEN <<>>
    ELSE [i \in 1..Len(months) |-> [tso |-> Head(tso_ids), month |-> months[i]]]
            \o Iterations(Tail(tso_ids), months)

\* The iteration under way, or the next to start; the iterations started.
Current == cIts[Len(cDone) + 1]
Started == Len(cDone) + IF cPc \in {"fetch", "parse"} THEN 1 ELSE 0
Get(tso) == [ev |-> "get", host |-> tso, secs |-> 0]
Sleep(tso, secs) == [ev |-> "sleep", host |-> tso, secs |-> secs]

CInit == WIdle /\ FIdle /\ IIdle /\ PIdle /\ CIdle /\ JIdle /\ DIdle /\ XIdle

\* The command is started: main() builds its TSODataImporter (db_importer.py
\* lines 679-681; main.py lines 93-94), whose constructor opens the database
\* and reads the schema file and may raise.  db_importer.main answers any
\* Exception with 1 (lines 696-698); download_tso_data answers it with
\* `return 0` (main.py lines 103-106) and main.py's main returns 0 (line 282).
CommandStart ==
    /\ cPc = "idle"
    /\ \E cmd \in {"db_importer.main", "main.tso-data"},
          tso_ids \in {<<"tohoku">>, <<"chubu", "tohoku">>},
          n \in 1..Len(Periods), opened \in BOOLEAN :
        /\ cCmd' = cmd
        /\ cIts' = Iterations(tso_ids, months_to_process(first_day(Periods[1]),
                                                         last_day(Periods[n])))
        /\ IF opened
           THEN cPc' = "between" /\ cExit' = None
           ELSE cPc' = "exit" /\ cExit' = IF cmd = "db_importer.main" THEN 1 ELSE 0
    /\ UNCHANGED <<cDone, cProbes, cResults, cTrace, cCancel, wvars, fvars, ivars, pvars, jvars, dvars, xvars>>

\* download_files, lines 650-656: the next iteration enters download_csv.
StartIteration ==
    /\ cPc = "between" /\ Len(cDone) < Len(cIts)
    /\ cPc' = "fetch"
    /\ cProbes' = dc_candidates(Current.tso, TemplateYear)
    /\ UNCHANGED <<cCmd, cIts, cDone, cResults, cTrace, cCancel, cExit,
                   wvars, fvars, ivars, pvars, jvars, dvars, xvars>>

\* The iteration ends with this outcome ("frame", "empty" or "error"); after
\* the last month of a TSO, import_from_downloader goes on with its data_list
\* (db_importer.py lines 541-547).
Complete(outcome, results) ==
    /\ cDone' = Append(cDone, outcome)
    /\ IF Len(cDone) + 1 = Len(cIts) \/ cIts[Len(cDone) + 2].tso # Current.tso
       THEN IF results > 0 THEN cPc' = "import" /\ cResults' = results
                           ELSE cPc' = "between" /\ cResults' = 0
       ELSE cPc' = "between" /\ cResults' = results

\* download_csv, lines 224-233: one probe of an alternative URL.  A
\* RequestException leaves download_csv and is caught at download_files'
\* line 687, which logs and goes on to the next month.
CommandProbe ==
    /\ cPc = "fetch" /\ cProbes # <<>>
    /\ cTrace' = Append(cTrace, Get(Current.tso))
    /\ \E resp \in Responses :
        IF resp.status = "exc"
        THEN cProbes' = <<>> /\ Complete("error", cResults)
        ELSE /\ cProbes' = Remaining(dc_probe_accepts(resp), cProbes)
             /\ UNCHANGED <<cDone, cPc, cResults>>
    /\ UNCHANGED <<cCmd, cIts, cCancel, cExit, wvars, fvars, ivars, pvars, jvars, dvars, xvars>>

\* download_csv, lines 264-279: the GET of `url`; anything but a 2xx answer
\* with content raises into line 687.
CommandGet ==
    /\ cPc = "fetch" /\ cProbes = <<>>
    /\ cTrace' = Append(cTrace, Get(Current.tso))
    /\ \E resp \in Responses :
        IF Is2xx(resp) /\ resp.body = "full"
        THEN cPc' = "parse" /\ UNCHANGED <<cDone, cResults>>
        ELSE Complete("error", cResults)
    /\ UNCHANGED <<cCmd, cIts, cProbes, cCancel, cExit, wvars, fvars, ivars, pvars, jvars, dvars, xvars>>

\* download_files, lines 657-688: process_csv and what follows it.  Only a
\* frame with rows in the range reaches the sleep of line 685; an empty one
\* leaves by `continue` (lines 662-664, 671-673) and an exception by line 687.
CommandParse ==
    /\ cPc = "parse"
    /\ \/ /\ \E secs \in sleep_min..sleep_max :
                cTrace' = Append(cTrace, Sleep(Current.tso, secs))
          /\ Complete("frame", cResults + 1)
       \/ /\ \E outcome \in {"empty", "error"} : Complete(outcome, cResults)
          /\ UNCHANGED cTrace
    /\ UNCHANGED <<cCmd, cIts, cProbes, cCancel, cExit, wvars, fvars, ivars, pvars, jvars, dvars, xvars>>

\* import_from_downloader, lines 549-624: the TSO's frames are imported; an
\* exception is logged (lines 617-624) and the next TSO follows.
CommandImport ==
    /\ cPc = "import"
    /\ cPc' = "between" /\ cResults' = 0
    /\ UNCHANGED <<cCmd, cIts, cDone, cProbes, cTrace, cCancel, cExit,
                   wvars, fvars, ivars, pvars, jvars, dvars, xvars>>

\* import_from_downloader returns total_imported (line 628) and main returns
\* 0 (db_importer.py line 691; main.py line 282).
CommandReturn ==
    /\ cPc = "between" /\ Len(cDone) = Len(cIts)
    /\ cPc' = "exit" /\ cExit' = 0
    /\ UNCHANGED <<cCmd, cIts, cDone, cProbes, cResults, cTrace, cCancel,
                   wvars, fvars, ivars, pvars, jvars, dvars, xvars>>

\* Ctrl-C: KeyboardInterrupt is raised at the statement being executed.  It
\* is no Exception, so no handler of download_files (line 687) or of
\* import_from_downloader (lines 617-626) catches it: the call stack unwinds
\* to db_importer.main, which returns 1 (lines 693-695), or out of main.py,
\* whose process ends with the interpreter's status for an unhandled
\* KeyboardInterrupt (1, or 130 when it re-raises SIGINT).
KeyboardInterrupt ==
    /\ cPc \in {"between", "fetch", "parse", "import"}
    /\ cCancel' = [at |-> cPc,
                   it |-> IF cPc \in {"fetch", "parse"} THEN Len(cDone) + 1 ELSE 0,
                   started |-> Started]
    /\ cPc' = "exit"
    /\ \E code \in {1, 130} :
        cExit' = IF cCmd = "db_importer.main" THEN 1 ELSE code
    /\ UNCHANGED <<cCmd, cIts, cDone, cProbes, cResults, cTrace, wvars, fvars, ivars, pvars, jvars, dvars, xvars>>

CNext ==
    \/ CommandStart
    \/ StartIteration
    \/ CommandProbe
    \/ CommandGet
    \/ CommandParse
    \/ CommandImport
    \/ CommandReturn
    \/ KeyboardInterrupt

SpecCommand == CInit /\ [][CNext]_vars

\* C23: between any two successive GETs toward one host, a failed one and
\* the candidates of one period included, the caller sleeps for sleep_min to
\* sleep_max seconds.
C23_DelayBetweenAttempts ==
    \A i, j \in 1..Len(cTrace) :
        (/\ i < j
         /\ cTrace[i].ev = "get" /\ cTrace[j].ev = "get" /\ cTrace[i].host = cTrace[j].host)
        => \E k \in (i + 1)..(j - 1) :
                cTrace[k].ev = "sleep" /\ cTrace[k].secs \in sleep_min..sleep_max

\* C24: a cancellation that arrives while an iteration is fetching or
\* parsing lets that iteration come to its end, and no iteration starts
\* after it.
C24_CancelBetweenIterations ==
    cCancel.at # "none" =>
        /\ cCancel.at \in {"fetch", "parse"} => Len(cDone) >= cCancel.it
        /\ Started <= cCancel.started

\* C25: the command exits with 0 only if every requested iteration came to
\* its end without an error, and with another code if one failed.
C25_ExitCodeTellsFailure ==
    cPc = "exit" =>
        (cExit = 0 => /\ Len(cDone) = Len(cIts)
                      /\ \A k \in 1..Len(cDone) : cDone[k] # "error")

\* C26: in the merged header a column whose second-row cell is blank or a
\* placeholder has a name ending in _main and one whose second-row cell is
\* 品質情報 has not; 気温(℃) over a blank cell is named ..._main and becomes
\* the column temperature.
Blank(cell) == level_str(cell) = <<>>
C26_MainSuffix ==
    pOp = "jma.parse_jma_csv" =>
        \A i \in 2..Len(pIn.columns) :
            /\ Blank(pIn.columns[i][2]) => endswith(pOut.columns[i].merged, MainSuffix)
            /\ pIn.columns[i][2] = HinshitsuJoho => ~endswith(pOut.columns[i].merged, MainSuffix)
            /\ (pIn.columns[i][1] = Kion /\ Blank(pIn.columns[i][2]))
                    => pOut.columns[i].column = "temperature"

----------------------------------------------------------------------------
(* SpecJma: one call of fetch_month_data (jma_historical.py) or of         *)
(* fetch_jma_csv_data (jma_data_handler.py).  SpecJmaFair: the call runs   *)
(* on: a POST returns or raises within its timeout, a sleep ends.          *)

MaxAttempts == 3                    \* max_retries given to fetch_month_data: 0..MaxAttempts
MAX_RETRIES == 3                    \* jma_config.py:57
INITIAL_RETRY_DELAY_SECONDS == 5    \* jma_config.py:58

\* What one POST can give: "exc": session.post raised a RequestException;
\* "err": a 4xx or 5xx status; "ok" with a Content-Type that names csv (or
\* octet-stream), html, or neither, and a body: "lines": text with a line
\* break; "oneline": text without one; "blank": nothing but white space;
\* "markup": lines of text whose first character is "<".
JmaResponses ==
    {[status |-> "ok", type |-> t, body |-> b] :
        t \in {"csv", "html", "other"}, b \in {"lines", "oneline", "blank", "markup"}}
    \cup {[status |-> st, type |-> "other", body |-> "blank"] : st \in {"err", "exc"}}

returns_csv_anyOk(resp) == resp.status = "ok"

\* fetch_month_data, lines 440-477 (fetch_jma_csv_data, lines 121-147): is
\* this answer returned as the CSV text?
returns_csv(resp) ==
    LET is_html_error == resp.type = "html" \/ (resp.type # "csv" /\ resp.body = "markup")
    IN /\ resp.status = "ok"                                    \* raise_for_status
       /\ ~is_html_error
       /\ resp.type = "csv"
       /\ resp.body \in {"lines", "markup"}         \* not blank, and has a line break

\* lines 496-499: the seconds slept after failed attempt number `attempt`
\* (from 0), 0 when it was the last.
retry_delay(attempt, max_retries) ==
    IF attempt < max_retries - 1 THEN INITIAL_RETRY_DELAY_SECONDS * (2 ^ attempt) ELSE 0

JInit == WIdle /\ FIdle /\ IIdle /\ PIdle /\ CIdle /\ JIdle /\ DIdle /\ XIdle

\* fetch_month_data(session, payload, post_url, max_retries, delay) or
\* fetch_jma_csv_data(session, payload), which loops MAX_RETRIES times.
JmaFetchStart ==
    /\ jImpl = "idle"
    /\ \/ jImpl' = "fetch_month_data" /\ jMax' \in 0..MaxAttempts
       \/ jImpl' = "fetch_jma_csv_data" /\ jMax' = MAX_RETRIES
    /\ jOut' = "running"
    /\ UNCHANGED <<jLog, wvars, fvars, ivars, pvars, cvars, dvars, xvars>>

\* One pass of `for attempt in range(max_retries)`.
JmaPost ==
    /\ jOut = "running" /\ Len(jLog) < jMax
    /\ \E resp \in JmaResponses :
        /\ jLog' = Append(jLog, [resp |-> resp,
                                 slept |-> IF returns_csv(resp) THEN 0
                                           ELSE retry_delay(Len(jLog), jMax)])
        /\ jOut' = IF returns_csv(resp) THEN "csv"
                   ELSE IF Len(jLog) < jMax - 1 THEN "running" ELSE "None"
    /\ UNCHANGED <<jImpl, jMax, wvars, fvars, ivars, pvars, cvars, dvars, xvars>>

\* range(max_retries) is empty: the `return None` after the loop (line 503).
JmaReturnNone ==
    /\ jOut = "running" /\ jMax = 0
    /\ jOut' = "None"
    /\ UNCHANGED <<jImpl, jMax, jLog, wvars, fvars, ivars, pvars, cvars, dvars, xvars>>

JNext ==
    \/ JmaFetchStart
    \/ JmaPost
    \/ JmaReturnNone

SpecJma == JInit /\ [][JNext]_vars
SpecJmaFair == SpecJma /\ WF_vars(JNext)

\* A non-empty CSV response: a 2xx answer of a CSV content type whose text
\* is not blank and has a line break.
NonEmptyCsv(resp) ==
    resp.status = "ok" /\ resp.type = "csv" /\ resp.body \in {"lines", "markup"}

\* C27: the JMA month fetch ends after at most max_retries POSTs: it
\* returns the CSV text at the first POST answered with a non-empty CSV
\* response, makes no POST after it, and returns None once max_retries POSTs
\* have all failed.
C27_Attempts ==
    /\ Len(jLog) <= jMax
    /\ \A k \in 1..Len(jLog) :
          NonEmptyCsv(jLog[k].resp) => (k = Len(jLog) /\ jOut = "csv")
    /\ jOut = "csv" => (jLog # <<>> /\ NonEmptyCsv(jLog[Len(jLog)].resp))
    /\ (jOut = "running" /\ Len(jLog) = jMax) => jMax = 0
    /\ jOut = "None" => (Len(jLog) = jMax /\ \A k \in 1..Len(jLog) : ~NonEmptyCsv(jLog[k].resp))
C27_BoundedRetry == []C27_Attempts /\ <>(jOut \in {"csv", "None"})

\* The third POST of three was answered with a non-empty CSV after an HTML
\* body and an HTTP error.
C27_Witness ==
    /\ jOut = "csv" /\ Len(jLog) = 3 /\ jMax = 3
    /\ jLog[1].resp.type = "html" /\ jLog[2].resp.status = "err"

----------------------------------------------------------------------------
(* SpecConnection: any sequence of calls on one db.duckdb_connection       *)
(* DuckDBConnection.                                                       *)

MaxConnects == 3    \* duckdb.connect calls that succeed in one behaviour

\* A call of the wrapper, as dLast records it.
DbCall(op, raised, ran, live, ret) ==
    [op |-> op, pre |-> dConnection, open |-> dHandles, raised |-> raised, ran |-> ran,
     live |-> live, ret |-> ret, committed |-> FALSE]

close_keepsReference(connection, handles, closed) ==
    [connection |-> connection, handles |-> IF closed THEN handles \ {connection} ELSE handles]

\* close, lines 103-112: the underlying close() (closed: it did close; an
\* exception in it is caught), and `finally: self._connection = None`.
close(connection, handles, closed) ==
    IF connection = 0 THEN [connection |-> 0, handles |-> handles]
    ELSE [connection |-> 0, handles |-> IF closed THEN handles \ {connection} ELSE handles]

\* is_connected, lines 114-116
is_connected(connection) == connection # 0

DInit == WIdle /\ FIdle /\ IIdle /\ PIdle /\ CIdle /\ JIdle /\ DIdle /\ XIdle

\* DuckDBConnection(db_path, read_only=...), lines 23-44: no connection yet.
DbConstruct ==
    /\ dLast.op = "none"
    /\ dReadOnly' \in BOOLEAN
    /\ dLast' = DbCall("__init__", FALSE, FALSE, FALSE, FALSE)
    /\ UNCHANGED <<dConnection, dHandles, dMade, wvars, fvars, ivars, pvars, cvars, jvars, xvars>>

\* duckdb.connect(...) in __enter__ (lines 50-54) and _ensure_connection
\* (lines 122-127): a new open connection, or an exception (connected = FALSE).
Connect(connected) ==
    IF dConnection = 0 /\ connected
    THEN dConnection' = dMade + 1 /\ dMade' = dMade + 1 /\ dHandles' = dHandles \cup {dMade + 1}
    ELSE UNCHANGED <<dConnection, dMade, dHandles>>

\* __enter__, lines 49-56
DbEnter ==
    /\ dLast.op # "none" /\ dMade < MaxConnects
    /\ \E connected \in BOOLEAN :
        /\ Connect(connected)
        /\ dLast' = DbCall("__enter__", dConnection = 0 /\ ~connected, FALSE, FALSE, FALSE)
    /\ UNCHANGED <<dReadOnly, wvars, fvars, ivars, pvars, cvars, jvars, xvars>>

\* close, lines 103-112, and __exit__, lines 58-59, which calls it.
DbClose ==
    /\ dLast.op # "none"
    /\ \E op \in {"close", "__exit__"}, closed \in BOOLEAN :
        /\ dConnection' = close(dConnection, dHandles, closed).connection
        /\ dHandles' = close(dConnection, dHandles, closed).handles
        /\ dLast' = DbCall(op, FALSE, FALSE, FALSE, FALSE)
    /\ UNCHANGED <<dReadOnly, dMade, wvars, fvars, ivars, pvars, cvars, jvars, xvars>>

\* is_connected, lines 114-116
DbIsConnected ==
    /\ dLast.op # "none"
    /\ dLast' = DbCall("is_connected", FALSE, FALSE, FALSE, is_connected(dConnection))
    /\ UNCHANGED <<dReadOnly, dConnection, dHandles, dMade, wvars, fvars, ivars, pvars, cvars,
                   jvars, xvars>>

\* execute_query(query, params, commit), lines 64-101: _ensure_connection,
\* then the query on self._connection, then commit() unless read-only; an
\* exception of connect or of the query is re-raised.
DbExecuteQuery ==
    /\ dLast.op # "none" /\ dMade < MaxConnects
    /\ \E connected, queryOk, commit_arg \in BOOLEAN :
        /\ Connect(connected)
        /\ dLast' = IF dConnection = 0 /\ ~connected
                    THEN DbCall("execute_query", TRUE, FALSE, FALSE, FALSE)
                    ELSE [DbCall("execute_query", ~queryOk, TRUE, dConnection' \in dHandles',
                                 queryOk)
                            EXCEPT !.committed = queryOk /\ commit_arg /\ ~dReadOnly]
    /\ UNCHANGED <<dReadOnly, wvars, fvars, ivars, pvars, cvars, jvars, xvars>>

DNext ==
    \/ DbConstruct
    \/ DbEnter
    \/ DbClose
    \/ DbIsConnected
    \/ DbExecuteQuery

SpecConnection == DInit /\ [][DNext]_vars

----------------------------------------------------------------------------
(* SpecJepx: JEPXBidDownloader over one database: downloaders are          *)
(* constructed and download_and_save is called, any number of times.       *)

MaxDay == 2         \* the days a date range is taken from: 1..MaxDay
MaxSaves == 2       \* download_and_save calls in one behaviour

DIR_NAMES == <<"spot_bid_curves", "spot_splitting_areas">>

\* The lines of a file: date, slot, price, sell_qty, buy_qty, area_code; the
\* slot may be written with a leading zero or be no number; a line may be
\* short.
JepxDate == <<50, 48, 50, 52, 47, 48, 52, 47, 48, 49>>              \* "2024/04/01"
JepxLine(slot, price) ==
    JepxDate \o <<Comma>> \o slot \o <<Comma>> \o price \o <<Comma, 49, Comma, 49, Comma, 49>>
JepxLines ==
    {JepxLine(<<49>>, <<53>>),              \* slot "1", price "5"
     JepxLine(<<48, 49>>, <<54>>),          \* slot "01", price "6"
     JepxLine(<<50>>, <<53>>),              \* slot "2", price "5"
     JepxLine(<<120>>, <<53>>),             \* slot "x", price "5"
     JepxDate \o <<Comma, 49, Comma, 53>>}  \* three cells only
\* The downloaded texts: one line, or two.
JepxTexts ==
    JepxLines \cup {first \o <<10>> \o second : first \in JepxLines, second \in JepxLines}

\* csv.reader(csv_text.splitlines()), line 112: the cells of each line
csv_reader(csv_text) ==
    [i \in 1..Len(split(csv_text, 10)) |-> split(split(csv_text, 10)[i], Comma)]

\* lines 114-122: a row is skipped when it has fewer than six cells or when
\* int() of its slot or area code raises.
row_kept(row) == Len(row) >= 6 /\ ~int_raises(row[2]) /\ ~int_raises(row[6])
\* line 123
row_key(row) == <<row[1], int(row[2]), int(row[6])>>
\* line 124
row_order(row) == [price |-> row[3], sell_qty |-> row[4], buy_qty |-> row[5]]

\* The keys of `data`, in the order they were first added (lines 125-126).
data_keys(rows) ==
    LET first == SelectSeq([i \in 1..Len(rows) |-> i],
                           LAMBDA i : /\ row_kept(rows[i])
                                      /\ \A j \in 1..(i - 1) :
                                            ~(row_kept(rows[j]) /\ row_key(rows[j]) = row_key(rows[i])))
    IN [n \in 1..Len(first) |-> row_key(rows[first[n]])]

\* data[key]: the orders of the rows with the key, in file order (line 127).
data_bids(rows, key) ==
    LET with == SelectSeq(rows, LAMBDA row : row_kept(row) /\ row_key(row) = key)
    IN [n \in 1..Len(with) |-> row_order(with[n])]

\* process_csv_to_json, lines 110-138: one record per key.
process_csv_to_json(csv_text) ==
    LET rows == csv_reader(csv_text)
        keys == data_keys(rows)
    IN [n \in 1..Len(keys) |->
            [id |-> keys[n][1] \o <<Underscore>> \o str(keys[n][2]) \o <<Underscore>>
                        \o str(keys[n][3]),
             date |-> keys[n][1], slot |-> keys[n][2], area_code |-> keys[n][3],
             bid |-> data_bids(rows, keys[n])]]

\* json.dumps of a list of orders (line 157)
dumps_order(order) ==
    <<123, 34, 112, 114, 105, 99, 101, 34, 58, 32, 34>> \o order.price                 \* {"price": "
        \o <<34, 44, 32, 34, 115, 101, 108, 108, 95, 113, 116, 121, 34, 58, 32, 34>>    \* ", "sell_qty": "
        \o order.sell_qty
        \o <<34, 44, 32, 34, 98, 117, 121, 95, 113, 116, 121, 34, 58, 32, 34>>          \* ", "buy_qty": "
        \o order.buy_qty \o <<34, 125>>                                                 \* "}
RECURSIVE dumps_orders(_)
dumps_orders(bids) ==
    IF bids = <<>> THEN <<>>
    ELSE IF Len(bids) = 1 THEN dumps_order(bids[1])
    ELSE dumps_order(Head(bids)) \o <<Comma, Space>> \o dumps_orders(Tail(bids))
json_dumps(bids) == <<91>> \o dumps_orders(bids) \o <<93>>

\* The parameters of the INSERT, lines 152-158.
insert_params(record) ==
    [id |-> record.id, date |-> record.date, slot |-> record.slot,
     area_code |-> record.area_code, bid |-> json_dumps(record.bid)]

insert_appends(table, row) == Append(table, row)

\* INSERT INTO jepx_bid_data ... ON CONFLICT(id) DO UPDATE SET bid=excluded.bid,
\* lines 145-149, on the table whose id is the PRIMARY KEY (lines 33-39).
insert_on_conflict(table, row) ==
    IF \E i \in 1..Len(table) : table[i].id = row.id
    THEN [i \in 1..Len(table) |->
            IF table[i].id = row.id THEN [table[i] EXCEPT !.bid = row.bid] ELSE table[i]]
    ELSE Append(table, row)

\* save_to_database, lines 140-161, up to the k-th record: one INSERT per
\* record; one that raises (raised) is printed and the loop goes on.
RECURSIVE save_to_database(_, _, _, _)
save_to_database(table, records, raised, k) ==
    IF k = 0 THEN table
    ELSE IF k \in raised THEN save_to_database(table, records, raised, k - 1)
    ELSE insert_on_conflict(save_to_database(table, records, raised, k - 1),
                            insert_params(records[k]))

\* What xSaved records of the k-th INSERT.
RowsWithId(table, id) == {i \in 1..Len(table) : table[i].id = id}
Saved(table, records, raised, k) ==
    LET before == save_to_database(table, records, raised, k - 1)
        row == insert_params(records[k])
    IN [id |-> row.id, bid |-> row.bid, raised |-> k \in raised, before |-> Len(before),
        existed |-> RowsWithId(before, row.id) # {},
        old |-> IF RowsWithId(before, row.id) = {} THEN <<>>
                ELSE before[CHOOSE i \in RowsWithId(before, row.id) : TRUE].bid]

XInit == WIdle /\ FIdle /\ IIdle /\ PIdle /\ CIdle /\ JIdle /\ DIdle /\ XIdle

\* JEPXBidDownloader(), lines 25-51: the tables are created if they do not
\* exist; the rows of jepx_bid_data stay.  A CREATE TABLE that raises
\* (created = FALSE) ends the construction.
JepxConstruct ==
    /\ xPc \in {"none", "ready", "raised"}
    /\ \E created \in BOOLEAN : xPc' = IF created THEN "ready" ELSE "raised"
    /\ UNCHANGED <<xTable, xDate, xEnd, xDir, xRuns, xSaved,
                   wvars, fvars, ivars, pvars, cvars, jvars, dvars>>

\* download_and_save(start_date, end_date), lines 171-172: the loop is entered
\* when start_date <= end_date; otherwise the call returns.
JepxDownloadAndSave ==
    /\ xPc = "ready" /\ xRuns < MaxSaves
    /\ xRuns' = xRuns + 1
    /\ \E start_date, end_date \in 1..MaxDay :
        IF start_date <= end_date
        THEN xPc' = "running" /\ xDate' = start_date /\ xEnd' = end_date /\ xDir' = 1
        ELSE UNCHANGED <<xPc, xDate, xEnd, xDir>>
    /\ xSaved' = <<>>
    /\ UNCHANGED <<xTable, wvars, fvars, ivars, pvars, cvars, jvars, dvars>>

\* The records of the downloaded texts.
JepxRecords == {process_csv_to_json(csv_text) : csv_text \in JepxTexts}

\* lines 173-187 after one file: the next name of DIR_NAMES, or the sleep and
\* the next day; past end_date the call returns.
NextFile ==
    IF xDir < Len(DIR_NAMES) THEN xDir' = xDir + 1 /\ UNCHANGED <<xDate, xEnd, xPc>>
    ELSE IF xDate + 1 <= xEnd THEN xDir' = 1 /\ xDate' = xDate + 1 /\ UNCHANGED <<xEnd, xPc>>
    ELSE xPc' = "ready" /\ xDir' = 0 /\ xDate' = 0 /\ xEnd' = 0

\* One file of download_and_save, lines 174-182: download_csv returns the
\* content, and its records are saved; or it returns None; or recording the
\* download raises, which ends the call.
JepxFile ==
    /\ xPc = "running"
    /\ \/ \E records \in JepxRecords :
            \E raised \in SUBSET (1..Len(records)) :
                /\ xTable' = save_to_database(xTable, records, raised, Len(records))
                /\ xSaved' = [k \in 1..Len(records) |-> Saved(xTable, records, raised, k)]
                /\ NextFile
       \/ NextFile /\ UNCHANGED <<xTable, xSaved>>
       \/ /\ xPc' = "raised" /\ xDir' = 0 /\ xDate' = 0 /\ xEnd' = 0
          /\ UNCHANGED <<xTable, xSaved>>
    /\ UNCHANGED <<xRuns, wvars, fvars, ivars, pvars, cvars, jvars, dvars>>

XNext ==
    \/ JepxConstruct
    \/ JepxDownloadAndSave
    \/ JepxFile

SpecJepx == XInit /\ [][XNext]_vars

\* C28: whatever calls were made, a query is run only on an open connection;
\* close raises nothing, leaves no connection referenced and changes nothing
\* when none was; is_connected() is False after close and __exit__; and
\* execute_query opens a connection when there is none before it runs.
C28_NoQueryOnClosed ==
    /\ dLast.ran => dLast.live
    /\ dConnection # 0 => dConnection \in dHandles
    /\ dLast.op \in {"close", "__exit__"} =>
            /\ ~dLast.raised /\ ~is_connected(dConnection)
            /\ dLast.pre = 0 => dHandles = dLast.open
    /\ dLast.op = "is_connected" => (dLast.ret <=> dConnection \in dHandles)
    /\ (dLast.op = "execute_query" /\ dLast.ran /\ dLast.pre = 0) => dConnection \notin dLast.open

\* A query was run after close: the wrapper had opened a new connection.
C28_Witness ==
    /\ dLast.op = "execute_query" /\ dLast.ran /\ ~dLast.raised /\ dLast.pre = 0
    /\ dMade >= 2 /\ dConnection = dMade

\* C29: for start_date <= end_date the months visited are those from
\* start_date's to end_date's, each once, in ascending order, across year
\* ends; when start_date's month is after end_date's month none is visited.
MonthIndex(date) == date.y * 12 + date.m - 1
ExpectedMonths(start_date, end_date) ==
    [i \in 1..(MonthIndex(end_date) - MonthIndex(start_date) + 1) |->
        [y |-> (MonthIndex(start_date) + i - 1) \div 12,
         m |-> ((MonthIndex(start_date) + i - 1) % 12) + 1]]
C29_EveryMonthOnce ==
    pOp \in {"unified.download_files", "jma.month_range", "tso_demand.download_range"} =>
        /\ DateLE(pIn.start_date, pIn.end_date)
                => pOut.months = ExpectedMonths(pIn.start_date, pIn.end_date)
        /\ MonthIndex(pIn.start_date) > MonthIndex(pIn.end_date) => pOut.months = <<>>

\* The months of 2023-12-15 to 2024-02-15 were listed: three, across the year end.
C29_Witness ==
    /\ pOp = "unified.download_files"
    /\ pIn.start_date = [y |-> 2023, m |-> 12, d |-> 15]
    /\ pIn.end_date = [y |-> 2024, m |-> 2, d |-> 15]
    /\ Len(pOut.months) = 3

\* C30: whatever date ranges download_and_save was called with, and however
\* often, jepx_bid_data has at most one row per id; an INSERT of a record
\* whose id is in the table adds no row and sets that row's bid to the
\* record's, an INSERT of a new id adds one row, and one that raised changes
\* nothing.
RowsAfter(k) == IF k < Len(xSaved) THEN xSaved[k + 1].before ELSE Len(xTable)
C30_OneRowPerId ==
    /\ \A i, j \in 1..Len(xTable) : xTable[i].id = xTable[j].id => i = j
    /\ \A k \in 1..Len(xSaved) :
        /\ RowsAfter(k) = xSaved[k].before
                            + (IF xSaved[k].raised \/ xSaved[k].existed THEN 0 ELSE 1)
        /\ (~xSaved[k].raised /\ \A n \in (k + 1)..Len(xSaved) : xSaved[n].id # xSaved[k].id) =>
                \E i \in 1..Len(xTable) : xTable[i].id = xSaved[k].id /\ xTable[i].bid = xSaved[k].bid

\* In a second download_and_save a record was saved whose id was in the table
\* with another bid: the table has that row once, with the new bid.
C30_Witness ==
    /\ xRuns >= 2
    /\ \E k \in 1..Len(xSaved) :
        /\ xSaved[k].existed /\ ~xSaved[k].raised /\ xSaved[k].old # xSaved[k].bid
        /\ \E i \in 1..Len(xTable) : xTable[i].id = xSaved[k].id /\ xTable[i].bid = xSaved[k].bid
    /\ Len(xTable) = 2

====
